---- MODULE Spec2Model ----
(***************************************************************************)
(* A model of cainban's task data-management core (package task over the   *)
(* SQLite schema of package storage): the tasks and task_links tables, the *)
(* write operations of task.System, and its read operations as operators   *)
(* over the stored rows.                                                   *)
(*                                                                         *)
(* Strings the code inspects (titles, queries, priority names) are         *)
(* sequences of characters, a character being a one-character string or,   *)
(* outside ASCII, the name of its code point; timestamps are readings of a *)
(* logical clock with one-second resolution (CURRENT_TIMESTAMP), so two    *)
(* operations may read the same timestamp.                                 *)
(***************************************************************************)
EXTENDS Integers, Sequences, FiniteSets, TLC

VARIABLES
    tasks,      \* the tasks table: id -> row
    links,      \* the task_links table: a set of rows
    taskSeq,    \* sqlite_sequence entry of tasks (AUTOINCREMENT)
    linkSeq,    \* sqlite_sequence entry of task_links (AUTOINCREMENT)
    clock,      \* the reading CURRENT_TIMESTAMP gives now
    res,        \* the last step: the call made and what it returned
    currentFile, \* the file current-board of the config directory
    opened,     \* the path of the database file the process has open
    files       \* the database files that are not open: path -> store

vars == <<tasks, links, taskSeq, linkSeq, clock, res, currentFile, opened, files>>

----------------------------------------------------------------------------
(* Bounds of the model *)

\* Spec: rows the two AUTOINCREMENT sequences hand out plus seconds that pass
MaxEvents == 2
\* SpecLinks: rows the two AUTOINCREMENT sequences hand out
MaxRows == 4
\* SpecTx: rows the two AUTOINCREMENT sequences hand out
MaxTxRows == 3
\* SpecStatus: tasks created
MaxStatusTasks == 2
\* SpecSearch: tasks created
MaxSearchTasks == 3
\* SpecResolve: tasks created
MaxResolveTasks == 2
\* SpecFrame: tasks created
MaxFrameTasks == 2
\* SpecRank: tasks created
MaxRankTasks == 2
\* SpecReopen: tasks created
MaxReopenTasks == 2
\* SpecBoard: tasks created in one database
MaxBoardTasks == 1
MaxToolTasks == 2
MaxPriorityTasks == 2
\* matches handed to the suggestion loop
MaxMatches == 6

----------------------------------------------------------------------------
(* Vocabulary *)

NULL == 0

StatusTodo == "todo"
StatusDoing == "doing"
StatusDone == "done"

PriorityNone == 0
PriorityLow == 1
PriorityMedium == 2
PriorityHigh == 3
PriorityCritical == 4

LinkTypeBlocks == "blocks"
LinkTypeBlockedBy == "blocked_by"
LinkTypeRelated == "related"
LinkTypeDependsOn == "depends_on"

LinkTypes == {LinkTypeBlocks, LinkTypeBlockedBy, LinkTypeRelated, LinkTypeDependsOn}

ValidStatuses == <<StatusTodo, StatusDoing, StatusDone>>

IsValidStatus(status) == \E i \in 1..Len(ValidStatuses) : ValidStatuses[i] = status

\* rows of the boards table after initialize: the default board
Boards == {1}

----------------------------------------------------------------------------
(* Strings *)

\* unicode.IsSpace, which strings.TrimSpace and strings.Fields go by
IsSpace(c) == c \in {" ", "\t", "\n", "\r", "\f", "U+000B", "U+0085", "U+00A0"}

\* the bytes the UTF-8 encoding of a character takes
Utf8Len(c) == IF c \in {"U+0085", "U+00A0", "U+00E9"} THEN 2 ELSE 1

\* len(s) of a Go string: its length in bytes
ByteLen(s) ==
    LET n(w) == Cardinality({i \in 1..Len(s) : Utf8Len(s[i]) = w})
    IN n(1) + 2 * n(2) + 3 * n(3) + 4 * n(4)

UpperChars == <<"A","B","C","D","E","F","G","H","I","J","K","L","M",
                "N","O","P","Q","R","S","T","U","V","W","X","Y","Z">>
LowerChars == <<"a","b","c","d","e","f","g","h","i","j","k","l","m",
                "n","o","p","q","r","s","t","u","v","w","x","y","z">>

ToLowerChar(c) ==
    IF \E i \in 1..Len(UpperChars) : UpperChars[i] = c
    THEN LowerChars[CHOOSE i \in 1..Len(UpperChars) : UpperChars[i] = c]
    ELSE c

ToLower(s) == [i \in 1..Len(s) |-> ToLowerChar(s[i])]

RECURSIVE TrimLeft(_)
TrimLeft(s) == IF s # << >> /\ IsSpace(Head(s)) THEN TrimLeft(Tail(s)) ELSE s

RECURSIVE TrimRight(_)
TrimRight(s) ==
    IF s # << >> /\ IsSpace(s[Len(s)]) THEN TrimRight(SubSeq(s, 1, Len(s) - 1)) ELSE s

TrimSpace(s) == TrimRight(TrimLeft(s))

HasPrefix(s, prefix) ==
    Len(prefix) <= Len(s) /\ SubSeq(s, 1, Len(prefix)) = prefix

Contains(s, substr) ==
    \E i \in 0..(Len(s) - Len(substr)) : SubSeq(s, i + 1, i + Len(substr)) = substr

\* strings.Fields: the maximal runs of non-space characters, in order
RECURSIVE Fields(_)
Fields(s) ==
    LET t == TrimLeft(s) IN
    IF t = << >> THEN << >>
    ELSE LET ends == {i \in 1..Len(t) : IsSpace(t[i])}
             n == IF ends = {} THEN Len(t) + 1
                  ELSE CHOOSE i \in ends : \A j \in ends : i <= j
         IN <<SubSeq(t, 1, n - 1)>> \o Fields(SubSeq(t, n, Len(t)))

----------------------------------------------------------------------------
(* Validation *)

MaxTitleLen == 255

ValidateTitle(title) ==
    LET t == TrimSpace(title) IN
    IF t = << >> THEN "title_empty"
    ELSE IF ByteLen(t) > MaxTitleLen THEN "title_too_long"
    ELSE "ok"

\* A priority argument is an interface{}: an int, a float64, a string or
\* something else; kind names the dynamic type.
IntP(n) == [kind |-> "int", n |-> n, frac |-> FALSE, s |-> << >>]
FloatP(n, frac) == [kind |-> "float64", n |-> n, frac |-> frac, s |-> << >>]
StrP(s) == [kind |-> "string", n |-> 0, frac |-> FALSE, s |-> s]
OtherP == [kind |-> "bool", n |-> 0, frac |-> FALSE, s |-> << >>]

\* a key that the arguments object does not have
Missing == [kind |-> "missing", n |-> 0, frac |-> FALSE, s |-> << >>]

\* task.Status(statusStr): the status a string of the arguments spells; the
\* strings that spell none of the three are one value here
Status(s) ==
    CASE s = <<"t","o","d","o">> -> StatusTodo
      [] s = <<"d","o","i","n","g">> -> StatusDoing
      [] s = <<"d","o","n","e">> -> StatusDone
      [] OTHER -> "unrecognized"

PriorityLevels ==
    [name \in {<<"n","o","n","e">>, <<"l","o","w">>, <<"m","e","d","i","u","m">>,
               <<"h","i","g","h">>, <<"c","r","i","t","i","c","a","l">>} |->
        CASE name = <<"n","o","n","e">> -> PriorityNone
          [] name = <<"l","o","w">> -> PriorityLow
          [] name = <<"m","e","d","i","u","m">> -> PriorityMedium
          [] name = <<"h","i","g","h">> -> PriorityHigh
          [] OTHER -> PriorityCritical]

\* IsValidPriority as it would be without the range test on numbers
IsValidPriority_AnyNumber(p) ==
    CASE p.kind = "int" -> TRUE
      [] p.kind = "float64" -> ~p.frac
      [] p.kind = "string" -> ToLower(p.s) \in DOMAIN PriorityLevels
      [] OTHER -> FALSE

IsValidPriority(p) ==
    CASE p.kind = "int" -> p.n >= PriorityNone /\ p.n <= PriorityCritical
      [] p.kind = "float64" ->
            ~p.frac /\ p.n >= PriorityNone /\ p.n <= PriorityCritical
      [] p.kind = "string" -> ToLower(p.s) \in DOMAIN PriorityLevels
      [] OTHER -> FALSE

\* ParsePriority: <<level, error>>
ParsePriority(p) ==
    CASE p.kind = "int" ->
            IF ~IsValidPriority(p) THEN <<0, "invalid_priority">> ELSE <<p.n, "ok">>
      [] p.kind = "float64" ->
            IF p.frac THEN <<0, "invalid_priority">>
            ELSE IF ~IsValidPriority(IntP(p.n)) THEN <<0, "invalid_priority">>
            ELSE <<p.n, "ok">>
      [] p.kind = "string" ->
            IF ToLower(p.s) \notin DOMAIN PriorityLevels
            THEN <<0, "invalid_priority">>
            ELSE <<PriorityLevels[ToLower(p.s)], "ok">>
      [] OTHER -> <<0, "invalid_priority">>

----------------------------------------------------------------------------
(* Read operations: functions of the stored rows *)

NoTask == [id |-> 0]

\* GetByID as it would be without "AND deleted_at IS NULL"
GetByID_NoDeletedFilter(T, id) ==
    IF id \in DOMAIN T
    THEN [err |-> "ok", task |-> T[id]]
    ELSE [err |-> "not_found", task |-> NoTask]

\* SELECT ... FROM tasks WHERE id = ? AND deleted_at IS NULL
GetByID(T, id) ==
    IF id \in DOMAIN T /\ T[id].deleted_at = NULL
    THEN [err |-> "ok", task |-> T[id]]
    ELSE [err |-> "not_found", task |-> NoTask]

\* the rows List selects: WHERE board_id = ? AND deleted_at IS NULL
ListRows(T, boardID) ==
    {id \in DOMAIN T : T[id].board_id = boardID /\ T[id].deleted_at = NULL}

\* the ways to put the elements of S in a row, each once
Orderings(S) ==
    {o \in [1..Cardinality(S) -> S] : \A i, j \in 1..Cardinality(S) : i # j => o[i] # o[j]}

\* ORDER BY priority DESC, created_at ASC: row t must come before row u
OrderedBefore(t, u) ==
    \/ t.priority > u.priority
    \/ t.priority = u.priority /\ t.created_at < u.created_at

\* the lists a SELECT ... ORDER BY priority DESC, created_at ASC over the
\* rows ids can return: the query names no further key, so rows equal in
\* priority and created_at come in whatever order SQLite visits them
OrderBy(T, ids) ==
    {o \in Orderings(ids) :
        \A i, j \in 1..Len(o) : i < j => ~OrderedBefore(T[o[j]], T[o[i]])}

\* the lists List(boardID) can return
List(T, boardID) == OrderBy(T, ListRows(T, boardID))

\* the rows ListByStatus selects
ListByStatusRows(T, boardID, status) ==
    {id \in DOMAIN T : /\ T[id].board_id = boardID
                       /\ T[id].status = status
                       /\ T[id].deleted_at = NULL}

\* ListByStatus runs its query with the status as given: no status makes it
\* return an error
ListByStatusErr(status) == "ok"

\* the lists ListByStatus(boardID, status) can return
ListByStatus(T, boardID, status) == OrderBy(T, ListByStatusRows(T, boardID, status))

\* the rows GetTaskLinks selects: WHERE from_task_id = ? OR to_task_id = ?
GetTaskLinksRows(L, taskID) ==
    {l \in L : l.from_task_id = taskID \/ l.to_task_id = taskID}

RECURSIVE SumSeq(_)
SumSeq(s) == IF s = << >> THEN 0 ELSE Head(s) + SumSeq(Tail(s))

fuzzyMatchScore_NoBonus(title, query) ==
    IF title = query THEN 1000
    ELSE IF Contains(title, query) THEN 500 + ByteLen(query) * 10
    ELSE LET pair(q, t) == IF HasPrefix(t, q) THEN ByteLen(q) * 5
                           ELSE IF Contains(t, q) THEN ByteLen(q) * 2
                           ELSE 0
             perQuery(q) == SumSeq([j \in 1..Len(Fields(title)) |-> pair(q, Fields(title)[j])])
         IN SumSeq([i \in 1..Len(Fields(query)) |-> perQuery(Fields(query)[i])])

fuzzyMatchScore_WordsFirst(title, query) ==
    LET pair(q, t) == IF HasPrefix(t, q) THEN ByteLen(q) * 5
                      ELSE IF Contains(t, q) THEN ByteLen(q) * 2
                      ELSE 0
        perQuery(q) == SumSeq([j \in 1..Len(Fields(title)) |-> pair(q, Fields(title)[j])])
        score == SumSeq([i \in 1..Len(Fields(query)) |-> perQuery(Fields(query)[i])])
    IN IF title = query THEN 1000
       ELSE IF Len(Fields(query)) > 1 /\ score > 0 THEN score + 50
       ELSE IF Contains(title, query) THEN 500 + ByteLen(query) * 10
       ELSE score

fuzzyMatchScore(title, query) ==
    IF title = query THEN 1000
    ELSE IF Contains(title, query) THEN 500 + ByteLen(query) * 10
    ELSE LET titleWords == Fields(title)
             queryWords == Fields(query)
             pair(q, t) == IF HasPrefix(t, q) THEN ByteLen(q) * 5
                           ELSE IF Contains(t, q) THEN ByteLen(q) * 2
                           ELSE 0
             perQuery(q) == SumSeq([j \in 1..Len(titleWords) |-> pair(q, titleWords[j])])
             score == SumSeq([i \in 1..Len(queryWords) |-> perQuery(queryWords[i])])
         IN IF Len(queryWords) > 1 /\ score > 0 THEN score + 50 ELSE score

SearchErr(query) == IF query = << >> THEN "empty_query" ELSE "ok"

\* the tasks SearchTasks keeps: those List returns whose score is positive
SearchRows(T, boardID, query) ==
    IF SearchErr(query) # "ok" THEN {}
    ELSE LET q == ToLower(TrimSpace(query)) IN
         {id \in ListRows(T, boardID) : fuzzyMatchScore(ToLower(T[id].title), q) > 0}

Swap(s, i, j) == [s EXCEPT ![i] = s[j], ![j] = s[i]]

\* for j := i + 1; j < len(scored); j++: swap when scored[j] scores higher
RECURSIVE SortInner(_, _, _)
SortInner(scored, i, j) ==
    IF j > Len(scored) THEN scored
    ELSE SortInner(IF scored[j].score > scored[i].score THEN Swap(scored, i, j) ELSE scored,
                   i, j + 1)

\* for i := 0; i < len(scored); i++
RECURSIVE SortOuter(_, _)
SortOuter(scored, i) ==
    IF i > Len(scored) THEN scored ELSE SortOuter(SortInner(scored, i, i + 1), i + 1)

\* SearchTasks as it would be without its sort
SortByScore_AsListed(scored) == scored

\* the sort of SearchTasks, highest score first
SortByScore(scored) == SortOuter(scored, 1)

\* what SearchTasks makes of the list that List returned: the tasks of
\* positive score, sorted
SearchListed(T, listed, query) ==
    LET q == ToLower(TrimSpace(query))
        all == [i \in 1..Len(listed) |->
                   [task |-> listed[i],
                    score |-> fuzzyMatchScore(ToLower(T[listed[i]].title), q)]]
        Positive(m) == m.score > 0
        sorted == SortByScore(SelectSeq(all, Positive))
    IN [i \in 1..Len(sorted) |-> sorted[i].task]

\* the lists SearchTasks(boardID, query) can return when it returns no error
SearchTasks(T, boardID, query) ==
    {SearchListed(T, listed, query) : listed \in List(T, boardID)}

Digits == <<"0", "1", "2", "3", "4", "5", "6", "7", "8", "9">>

IsDigit(c) == \E i \in 1..Len(Digits) : Digits[i] = c

DigitVal(c) == (CHOOSE i \in 1..Len(Digits) : Digits[i] = c) - 1

RECURSIVE DecimalVal(_)
DecimalVal(s) ==
    IF s = << >> THEN 0
    ELSE DecimalVal(SubSeq(s, 1, Len(s) - 1)) * 10 + DigitVal(s[Len(s)])

\* strconv.Atoi: an optional sign and then decimal digits, nothing else
\* (the texts used here stay far inside the range of int)
Atoi(s) ==
    LET signed == s # << >> /\ Head(s) \in {"+", "-"}
        digits == IF signed THEN Tail(s) ELSE s
    IN IF digits = << >> \/ \E i \in 1..Len(digits) : ~IsDigit(digits[i])
       THEN [err |-> "syntax", n |-> 0]
       ELSE [err |-> "ok",
             n |-> IF signed /\ Head(s) = "-" THEN 0 - DecimalVal(digits)
                   ELSE DecimalVal(digits)]

MaxSuggestions == 5

Min(a, b) == IF a <= b THEN a ELSE b

\* the suggestion loop as it would be without its break
Suggestions_NoBreak(T, matches) ==
    [i \in 1..Len(matches) |-> [id |-> matches[i], title |-> T[matches[i]].title]]

\* the lines "#id title" of the first matches; a line is kept as the id
\* and the title it is printed from
Suggestions(T, matches) ==
    [i \in 1..Min(Len(matches), MaxSuggestions) |->
        [id |-> matches[i], title |-> T[matches[i]].title]]

Found(id) == [err |-> "ok", task |-> id, suggestions |-> << >>]
NotResolved(err, suggestions) == [err |-> err, task |-> NULL, suggestions |-> suggestions]

\* FindTaskByFuzzyID as it would be if the title search came first
FindTaskAmong_SearchFirst(T, idOrQuery, searchErr, matches) ==
    LET a == Atoi(idOrQuery) IN
    IF searchErr = "ok" /\ Len(matches) = 1 THEN Found(matches[1])
    ELSE IF searchErr = "ok" /\ Len(matches) > 1
         THEN NotResolved("multiple_match", Suggestions(T, matches))
    ELSE IF a.err = "ok" /\ GetByID(T, a.n).err = "ok" THEN Found(a.n)
    ELSE IF searchErr # "ok" THEN NotResolved(searchErr, << >>)
    ELSE IF a.err = "ok" THEN NotResolved("no_id_no_match", << >>)
    ELSE NotResolved("no_match", << >>)

\* FindTaskByFuzzyID once SearchTasks has answered with searchErr and matches
FindTaskAmong(T, idOrQuery, searchErr, matches) ==
    LET a == Atoi(idOrQuery) IN
    IF a.err = "ok" /\ GetByID(T, a.n).err = "ok" THEN Found(a.n)
    ELSE IF searchErr # "ok" THEN NotResolved(searchErr, << >>)
    ELSE IF Len(matches) = 0
         THEN IF a.err = "ok" THEN NotResolved("no_id_no_match", << >>)
              ELSE NotResolved("no_match", << >>)
    ELSE IF Len(matches) = 1 THEN Found(matches[1])
    ELSE NotResolved("multiple_match", Suggestions(T, matches))

\* the outcomes FindTaskByFuzzyID can have, one for each list SearchTasks can
\* return
FindTaskByFuzzyID(T, boardID, idOrQuery) ==
    IF SearchErr(idOrQuery) # "ok"
    THEN {FindTaskAmong(T, idOrQuery, SearchErr(idOrQuery), << >>)}
    ELSE {FindTaskAmong(T, idOrQuery, "ok", matches) :
              matches \in SearchTasks(T, boardID, idOrQuery)}

----------------------------------------------------------------------------
(* Write operations: the error each call returns and the rows it leaves *)

Without(T, id) == [i \in DOMAIN T \ {id} |-> T[i]]

\* the largest id of a stored row, 0 when there is none
MaxRowid(T) == IF DOMAIN T = {} THEN 0 ELSE CHOOSE i \in DOMAIN T : \A j \in DOMAIN T : j <= i

\* the id of a new row as it would be for INTEGER PRIMARY KEY without
\* AUTOINCREMENT: one more than the largest id stored
Autoincrement_MaxRowidOnly(T, seq) == MaxRowid(T) + 1

\* id INTEGER PRIMARY KEY AUTOINCREMENT: one more than the largest id the
\* table ever held, which sqlite_sequence records
Autoincrement(T, seq) == (IF seq > MaxRowid(T) THEN seq ELSE MaxRowid(T)) + 1

\* CreateWithPriority as it would be on a connection without foreign keys
CreateErr_NoForeignKey(boardID, title, priority) ==
    IF ValidateTitle(title) # "ok" THEN ValidateTitle(title)
    ELSE IF ~IsValidPriority(priority) THEN "invalid_priority"
    ELSE "ok"

\* CreateWithPriority: title, then priority, then the INSERT (board_id is a
\* foreign key into boards)
CreateErr(boardID, title, priority) ==
    IF ValidateTitle(title) # "ok" THEN ValidateTitle(title)
    ELSE IF ~IsValidPriority(priority) THEN "invalid_priority"
    ELSE IF boardID \notin Boards THEN "fk_failed"
    ELSE "ok"

CreateRow(id, boardID, title, description, priority, now) ==
    [id |-> id, board_id |-> boardID, title |-> title, description |-> description,
     status |-> StatusTodo, priority |-> ParsePriority(priority)[1],
     deleted_at |-> NULL, created_at |-> now, updated_at |-> now]

\* UpdateStatus as it would be if a task that is done could not leave done
UpdateStatusErr_DoneIsFinal(T, id, status) ==
    IF ~IsValidStatus(status) THEN "invalid_status"
    ELSE IF id \notin DOMAIN T THEN "not_found"
    ELSE IF T[id].status = StatusDone /\ status # StatusDone THEN "invalid_transition"
    ELSE "ok"

\* UPDATE tasks SET status = ?, updated_at = CURRENT_TIMESTAMP WHERE id = ?
UpdateStatusErr(T, id, status) ==
    IF ~IsValidStatus(status) THEN "invalid_status"
    ELSE IF id \notin DOMAIN T THEN "not_found"
    ELSE "ok"

UpdateStatusRows(T, id, status, now) ==
    [T EXCEPT ![id].status = status, ![id].updated_at = now]

\* UPDATE tasks SET title = ?, description = ?, updated_at = ... WHERE id = ?
UpdateErr(T, id, title) ==
    IF ValidateTitle(title) # "ok" THEN ValidateTitle(title)
    ELSE IF id \notin DOMAIN T THEN "not_found"
    ELSE "ok"

\* Update as it would be if it also put the task back to todo
UpdateRows_ResetsStatus(T, id, title, description, now) ==
    [T EXCEPT ![id].title = title, ![id].description = description,
              ![id].status = StatusTodo, ![id].updated_at = now]

UpdateRows(T, id, title, description, now) ==
    [T EXCEPT ![id].title = title, ![id].description = description,
              ![id].updated_at = now]

\* UpdatePriority as it would be with "AND deleted_at IS NULL"
UpdatePriorityErr_ActiveOnly(T, id, priority) ==
    IF ParsePriority(priority)[2] # "ok" THEN ParsePriority(priority)[2]
    ELSE IF id \notin DOMAIN T \/ T[id].deleted_at # NULL THEN "not_found"
    ELSE "ok"

\* UPDATE tasks SET priority = ?, updated_at = ... WHERE id = ?
UpdatePriorityErr(T, id, priority) ==
    IF ParsePriority(priority)[2] # "ok" THEN ParsePriority(priority)[2]
    ELSE IF id \notin DOMAIN T THEN "not_found"
    ELSE "ok"

UpdatePriorityRows(T, id, priority, now) ==
    [T EXCEPT ![id].priority = ParsePriority(priority)[1], ![id].updated_at = now]

\* SoftDelete as it would be without "AND deleted_at IS NULL"
SoftDeleteErr_AnyRow(T, id) ==
    IF id \in DOMAIN T THEN "ok" ELSE "already_deleted"

\* UPDATE tasks SET deleted_at = now, updated_at = now
\*   WHERE id = ? AND deleted_at IS NULL
SoftDeleteErr(T, id) ==
    IF id \in DOMAIN T /\ T[id].deleted_at = NULL THEN "ok" ELSE "already_deleted"

SoftDeleteRows(T, id, now) ==
    [T EXCEPT ![id].deleted_at = now, ![id].updated_at = now]

\* UPDATE tasks SET deleted_at = NULL, updated_at = now
\*   WHERE id = ? AND deleted_at IS NOT NULL
RestoreTaskErr(T, id) ==
    IF id \in DOMAIN T /\ T[id].deleted_at # NULL THEN "ok" ELSE "not_deleted"

\* RestoreTask as it would be if it did not clear deleted_at
RestoreTaskRows_KeepsDeletedAt(T, id, now) ==
    [T EXCEPT ![id].updated_at = now]

RestoreTaskRows(T, id, now) ==
    [T EXCEPT ![id].deleted_at = NULL, ![id].updated_at = now]

\* HardDelete, inside one transaction: DELETE FROM task_links WHERE
\* from_task_id = ? OR to_task_id = ?, then DELETE FROM tasks WHERE id = ?;
\* no row deleted is an error and the deferred Rollback undoes the first step
HardDeleteErr(T, id) == IF id \in DOMAIN T THEN "ok" ELSE "not_found"

HardDeleteLinks(L, id) == {l \in L : l.from_task_id # id /\ l.to_task_id # id}

\* HardDelete as it would be if it marked the row instead of removing it
HardDeleteRows_MarksRow(T, id) ==
    [T EXCEPT ![id].deleted_at = T[id].updated_at]

HardDeleteRows(T, id) == Without(T, id)

\* task_links: FOREIGN KEY (from_task_id / to_task_id) REFERENCES tasks(id)
\* ON DELETE CASCADE, enforced since the connection sets _foreign_keys=on
OnDeleteCascade(L, id) == {l \in L : l.from_task_id # id /\ l.to_task_id # id}

\* HardDelete as it would be if its two statements ran outside a transaction:
\* what a statement has done stays done when a later one fails
HardDeleteTx_NoTransaction(T, L, id, fault) ==
    IF fault = "begin" THEN [err |-> "begin_failed", tasks |-> T, links |-> L]
    ELSE IF fault = "links" THEN [err |-> "exec_failed", tasks |-> T, links |-> L]
    ELSE IF fault = "task"
         THEN [err |-> "exec_failed", tasks |-> T, links |-> HardDeleteLinks(L, id)]
    ELSE IF HardDeleteErr(T, id) # "ok"
         THEN [err |-> HardDeleteErr(T, id), tasks |-> T, links |-> HardDeleteLinks(L, id)]
    ELSE [err |-> "ok", tasks |-> HardDeleteRows(T, id),
          links |-> OnDeleteCascade(HardDeleteLinks(L, id), id)]

\* HardDelete statement by statement: Begin, the DELETE on task_links, the
\* DELETE on tasks, the RowsAffected test, Commit. fault names the statement
\* the driver fails ("none": it fails none). Every return before Commit runs
\* the deferred Rollback, and a Commit that fails commits nothing, so the
\* store is then as it was at Begin. Other connections never read what an
\* open transaction has written, so the call is one step.
HardDeleteTx(T, L, id, fault) ==
    LET atBegin == [tasks |-> T, links |-> L]
        inTx1 == [tasks |-> T, links |-> HardDeleteLinks(L, id)]
        inTx2 == IF id \in DOMAIN inTx1.tasks
                 THEN [tasks |-> HardDeleteRows(inTx1.tasks, id),
                       links |-> OnDeleteCascade(inTx1.links, id)]
                 ELSE inTx1
    IN IF fault = "begin" THEN [err |-> "begin_failed"] @@ atBegin
       ELSE IF fault \in {"links", "task"} THEN [err |-> "exec_failed"] @@ atBegin
       ELSE IF HardDeleteErr(T, id) # "ok" THEN [err |-> HardDeleteErr(T, id)] @@ atBegin
       ELSE IF fault = "commit" THEN [err |-> "commit_failed"] @@ atBegin
       ELSE [err |-> "ok"] @@ inTx2

\* LinkTasks as it would be without the self-link test
LinkTasksErr_NoSelfTest(T, L, fromTaskID, toTaskID, linkType) ==
    IF GetByID(T, fromTaskID).err # "ok" THEN "from_not_found"
    ELSE IF GetByID(T, toTaskID).err # "ok" THEN "to_not_found"
    ELSE IF \E l \in L : /\ l.from_task_id = fromTaskID
                          /\ l.to_task_id = toTaskID
                          /\ l.link_type = linkType
         THEN "link_exists"
    ELSE "ok"

\* LinkTasks as it would be without the UNIQUE constraint of task_links
LinkTasksErr_NoUnique(T, L, fromTaskID, toTaskID, linkType) ==
    IF GetByID(T, fromTaskID).err # "ok" THEN "from_not_found"
    ELSE IF GetByID(T, toTaskID).err # "ok" THEN "to_not_found"
    ELSE IF fromTaskID = toTaskID THEN "self_link"
    ELSE "ok"

\* LinkTasks: both endpoints through GetByID, then the self-link test, then
\* the INSERT under UNIQUE(from_task_id, to_task_id, link_type)
LinkTasksErr(T, L, fromTaskID, toTaskID, linkType) ==
    IF GetByID(T, fromTaskID).err # "ok" THEN "from_not_found"
    ELSE IF GetByID(T, toTaskID).err # "ok" THEN "to_not_found"
    ELSE IF fromTaskID = toTaskID THEN "self_link"
    ELSE IF \E l \in L : /\ l.from_task_id = fromTaskID
                          /\ l.to_task_id = toTaskID
                          /\ l.link_type = linkType
         THEN "link_exists"
    ELSE "ok"

LinkRow(id, fromTaskID, toTaskID, linkType, now) ==
    [id |-> id, from_task_id |-> fromTaskID, to_task_id |-> toTaskID,
     link_type |-> linkType, created_at |-> now]

\* UnlinkTasks as it would be if its DELETE left the link type out
UnlinkMatches_AnyType(L, fromTaskID, toTaskID, linkType) ==
    {l \in L : l.from_task_id = fromTaskID /\ l.to_task_id = toTaskID}

\* DELETE FROM task_links WHERE from_task_id = ? AND to_task_id = ? AND link_type = ?
UnlinkMatches(L, fromTaskID, toTaskID, linkType) ==
    {l \in L : /\ l.from_task_id = fromTaskID
               /\ l.to_task_id = toTaskID
               /\ l.link_type = linkType}

UnlinkTasksErr(L, fromTaskID, toTaskID, linkType) ==
    IF UnlinkMatches(L, fromTaskID, toTaskID, linkType) = {} THEN "no_link" ELSE "ok"

----------------------------------------------------------------------------
(* The board system and the database files *)

DefaultName == <<"d", "e", "f", "a", "u", "l", "t">>

\* a file of the config directory: whether it exists and what it holds
NoFile == [exists |-> FALSE, data |-> << >>]
FileOf(data) == [exists |-> TRUE, data |-> data]

\* GetCurrentBoard: "default" when the file is missing or blank, else its
\* contents without the blanks around them
GetCurrentBoard(file) ==
    IF ~file.exists THEN DefaultName
    ELSE IF TrimSpace(file.data) = << >> THEN DefaultName
    ELSE TrimSpace(file.data)

\* SetCurrentBoard: MkdirAll, then os.Remove for "" and "default" (its error
\* is dropped), os.WriteFile for any other name. fault names the call that
\* fails: "mkdir", "remove", "open" (WriteFile cannot open the file), "write"
\* (it has truncated the file and cannot write), "none"
SetCurrentBoardErr(boardName, fault) ==
    IF fault = "mkdir" THEN "mkdir_failed"
    ELSE IF boardName = << >> \/ boardName = DefaultName THEN "ok"
    ELSE IF fault \in {"open", "write"} THEN "write_failed"
    ELSE "ok"

SetCurrentBoardFile(file, boardName, fault) ==
    IF fault = "mkdir" THEN file
    ELSE IF boardName = << >> \/ boardName = DefaultName
         THEN IF fault = "remove" THEN file ELSE NoFile
    ELSE IF fault = "open" THEN file
    ELSE IF fault = "write" THEN FileOf(<< >>)
    ELSE FileOf(boardName)

SafeChars ==
    {LowerChars[i] : i \in 1..Len(LowerChars)} \cup {UpperChars[i] : i \in 1..Len(UpperChars)}
    \cup {Digits[i] : i \in 1..Len(Digits)} \cup {"-", "_"}

\* sanitizeBoardName as it would be if it left the other characters out
sanitizeBoardName_Drops(name) ==
    LET Safe(c) == c \in SafeChars
        safe == SelectSeq(name, Safe)
    IN IF safe = << >> THEN <<"u", "n", "n", "a", "m", "e", "d">> ELSE safe

sanitizeBoardName(name) ==
    LET safe == [i \in 1..Len(name) |-> IF name[i] \in SafeChars THEN name[i] ELSE "_"]
    IN IF safe = << >> THEN <<"u", "n", "n", "a", "m", "e", "d">> ELSE safe

\* a path below the config directory: cainban.db, or boards/<base>.db
GetBoardPath(boardName) ==
    IF boardName = << >> \/ boardName = DefaultName
    THEN [dir |-> "", base |-> <<"c", "a", "i", "n", "b", "a", "n">>]
    ELSE [dir |-> "boards", base |-> sanitizeBoardName(boardName)]

\* opened when the process has no database open
Closed == [dir |-> "", base |-> << >>]

NoFiles == [path \in {} |-> 0]

\* what a database file holds
Store(T, L, tSeq, lSeq) == [tasks |-> T, links |-> L, taskSeq |-> tSeq, linkSeq |-> lSeq]

\* INSERT OR IGNORE INTO boards (id, ...) VALUES (1, ...)
InsertDefaultBoard(B) == IF 1 \in B THEN B ELSE B \cup {1}

\* migrate as it would be if it set deleted_at to NULL in every row
migrate_ClearsDeletedAt(T) ==
    [id \in DOMAIN T |-> [c \in DOMAIN T[id] \cup {"deleted_at"} |->
                             IF c = "deleted_at" THEN NULL ELSE T[id][c]]]

\* migrate: ALTER TABLE tasks ADD COLUMN deleted_at DATETIME NULL when
\* PRAGMA table_info(tasks) names no such column; the rows then hold NULL
migrate(T) ==
    LET hasDeletedAt == \A id \in DOMAIN T : "deleted_at" \in DOMAIN T[id]
    IN IF hasDeletedAt THEN T
       ELSE [id \in DOMAIN T |-> [c \in DOMAIN T[id] \cup {"deleted_at"} |->
                                     IF c \in DOMAIN T[id] THEN T[id][c] ELSE NULL]]

\* storage.New on a path: the file as it is, or a new one, after
\* initialize (CREATE ... IF NOT EXISTS leaves what exists) and migrate
OpenStore(F, path) ==
    IF path \in DOMAIN F
    THEN Store(migrate(F[path].tasks), F[path].links, F[path].taskSeq, F[path].linkSeq)
    ELSE Store(<< >>, {}, 0, 0)

\* ListBoards: "default" when cainban.db exists, and the base name of every
\* .db file of the boards directory; the open database is a file too
ListBoards(F, open) ==
    {IF path.dir = "" THEN DefaultName ELSE path.base :
        path \in (DOMAIN F \cup {open}) \ {Closed}}

GetBoardErr(F, open, name) == IF name \in ListBoards(F, open) THEN "ok" ELSE "not_found"

----------------------------------------------------------------------------
(* Arguments the calls are made with *)

\* every id handed out so far and one that never was
IdInputs == 1..(taskSeq + 1)

BoardInputs == {1, 2}

\* <<title, description>>
FieldInputs == { << <<"a">>, "" >>, << <<" ", "b">>, "d" >>, << << >>, "d" >> }

LinkedFieldInputs == { << <<"a">>, "" >>, << << >>, "d" >> }

PriorityInputs == { StrP(<<"H","i","g","h">>), IntP(5) }

\* priorities by name and by number, and a number that is no level
LevelInputs == { StrP(<<"H","i","g","h">>), IntP(PriorityLow), IntP(5) }

StatusInputs == { StatusDoing, "blocked" }

\* n times the character c
Repeat(c, n) == [i \in 1..n |-> c]

\* titles at both sides of the length limit, in ASCII and outside it
TitleInputs ==
    { << >>, <<" ">>, <<"U+00A0">>, <<"a">>, <<" ", "a", "\t">>,
      Repeat("a", MaxTitleLen), Repeat("a", MaxTitleLen + 1),
      <<" ">> \o Repeat("a", MaxTitleLen) \o <<"\n">>,
      Repeat("U+00E9", 127), Repeat("U+00E9", 128), Repeat("U+00E9", MaxTitleLen) }

\* titles and queries that score differently against each other
SearchTitleInputs == { <<"a">>, <<"a", " ", "b">>, <<"B">> }

SearchQueryInputs == { <<"a">>, <<"B">>, <<"b", " ", "a">>, <<" ">>, << >> }

AllStatusInputs == { StatusTodo, StatusDoing, StatusDone, "blocked" }

QueryInputs == { <<"a">>, <<"B">>, <<" ">>, << >> }

LinkTypeInputs == { LinkTypeBlocks, LinkTypeRelated, "duplicates" }

\* priority arguments no level answers to: integers out of 0..4, a number
\* with a fraction, names of no level, a value of another type
BadPriorityInputs ==
    { IntP(0 - 1), IntP(5), FloatP(5, FALSE), FloatP(2, TRUE),
      StrP(<<"u","r","g","e","n","t">>), StrP(<< >>), OtherP }

\* the statement of HardDelete the driver fails
FaultInputs == { "none", "begin", "links", "task", "commit" }

\* the README's example title, a title with a digit in it, a plain one
ExampleTitle ==
    <<"I","m","p","l","e","m","e","n","t"," ","u","s","e","r"," ",
      "a","u","t","h","e","n","t","i","c","a","t","i","o","n">>

ResolveTitleInputs == { ExampleTitle, <<"a", " ", "2">>, <<"a">> }

\* identifiers: numerals, words of the titles in and out of order, a word of
\* no title, blanks, nothing
ResolveInputs ==
    { <<"1">>, <<"2">>, <<"3">>, <<"0", "2">>, <<"+", "1">>, <<"-", "1">>,
      <<"a">>, <<"A", " ", "2">>, <<"x">>, <<" ">>, << >>,
      <<"a","u","t","h">>,
      <<"i","m","p","l","e","m","e","n","t"," ","u","s","e","r">>,
      <<"u","s","e","r"," ","i","m","p","l","e","m","e","n","t">>,
      <<"u","s","e","r"," ","m","e","n","t">> }

\* long queries, and for each the title equal to it and a title it occurs in
RankQueryInputs == { Repeat("a", 49), Repeat("a", 50), Repeat("a", 51),
                     Repeat("a", MaxTitleLen - 1) }

RankTitleInputs == RankQueryInputs \cup { q \o <<"b">> : q \in RankQueryInputs }

\* tools/call requests: arguments present and absent, of the type the
\* handler asks for and of another, with values the task system takes and
\* values it refuses
ArgumentInputs ==
    [ id : { Missing, FloatP(1, FALSE), FloatP(3, FALSE), StrP(<<"1">>) },
      status : { Missing, StrP(<<"d","o","i","n","g">>),
                 StrP(<<"b","l","o","c","k","e","d">>), FloatP(1, FALSE) },
      priority : { Missing, StrP(<<"H","i","g","h">>), FloatP(5, FALSE), OtherP },
      title : { Missing, StrP(<<"a">>), StrP(<< >>), FloatP(1, FALSE) },
      board_id : { Missing, FloatP(2, FALSE) } ]

ParamsInputs ==
    [ decodes : BOOLEAN,
      name : { "create_task", "update_task_status", "get_task",
               "update_task_priority", "archive_task" },
      arguments : ArgumentInputs ]

\* board names: a plain one, one with a blank before it, one with a
\* character no file name keeps, a blank, none, and the default
BoardNameInputs ==
    { <<"w">>, <<" ", "w">>, <<"w", "/">>, <<" ">>, << >>, DefaultName }

\* names of every kind of character
SanitizeInputs ==
    BoardNameInputs \cup
    { <<"a", "-", "B", "_", "9">>, <<"a", " ", "b", "/", ".", "U+00E9">>,
      <<"u", "n", "n", "a", "m", "e", "d">>, <<"_", "_">> }

FileFaultInputs == { "none", "mkdir", "remove", "open", "write" }

----------------------------------------------------------------------------
(* The calls *)

Result(op, id, err) == [op |-> op, id |-> id, err |-> err]

Init ==
    /\ tasks = << >>
    /\ links = {}
    /\ taskSeq = 0
    /\ linkSeq = 0
    /\ clock = 1
    /\ res = Result("New", 0, "ok")
    /\ currentFile = NoFile
    /\ opened = GetBoardPath(DefaultName)
    /\ files = NoFiles

\* a second passes
Tick ==
    /\ clock' = clock + 1
    /\ res' = Result("Tick", 0, "ok")
    /\ UNCHANGED <<tasks, links, taskSeq, linkSeq, currentFile, opened, files>>

CreateWithPriority(boardID, title, description, priority) ==
    LET err == CreateErr(boardID, title, priority)
        id == Autoincrement(tasks, taskSeq)
    IN /\ IF err = "ok"
          THEN /\ tasks' = (id :> CreateRow(id, boardID, title, description, priority, clock)) @@ tasks
               /\ taskSeq' = id
               /\ res' = Result("CreateTask", id, err)
          ELSE /\ UNCHANGED <<tasks, taskSeq>>
               /\ res' = Result("CreateTask", 0, err)
       /\ UNCHANGED <<links, linkSeq, clock, currentFile, opened, files>>

\* Create as it would be if it passed PriorityLow on
Create_DefaultLow(boardID, title, description) ==
    CreateWithPriority(boardID, title, description, IntP(PriorityLow))

Create(boardID, title, description) ==
    CreateWithPriority(boardID, title, description, IntP(PriorityNone))

UpdateStatus(id, status) ==
    LET err == UpdateStatusErr(tasks, id, status) IN
    /\ tasks' = IF err = "ok" THEN UpdateStatusRows(tasks, id, status, clock) ELSE tasks
    /\ res' = Result("UpdateTaskStatus", id, err)
    /\ UNCHANGED <<links, taskSeq, linkSeq, clock, currentFile, opened, files>>

Update(id, title, description) ==
    LET err == UpdateErr(tasks, id, title) IN
    /\ tasks' = IF err = "ok" THEN UpdateRows(tasks, id, title, description, clock) ELSE tasks
    /\ res' = Result("UpdateTask", id, err)
    /\ UNCHANGED <<links, taskSeq, linkSeq, clock, currentFile, opened, files>>

UpdatePriority(id, priority) ==
    LET err == UpdatePriorityErr(tasks, id, priority) IN
    /\ tasks' = IF err = "ok" THEN UpdatePriorityRows(tasks, id, priority, clock) ELSE tasks
    /\ res' = Result("UpdateTaskPriority", id, err)
    /\ UNCHANGED <<links, taskSeq, linkSeq, clock, currentFile, opened, files>>

\* SoftDelete as it would be if it also removed the links of the task
SoftDelete_DropsLinks(taskID) ==
    LET err == SoftDeleteErr(tasks, taskID) IN
    /\ tasks' = IF err = "ok" THEN SoftDeleteRows(tasks, taskID, clock) ELSE tasks
    /\ links' = IF err = "ok" THEN HardDeleteLinks(links, taskID) ELSE links
    /\ res' = Result("SoftDelete", taskID, err)
    /\ UNCHANGED <<taskSeq, linkSeq, clock, currentFile, opened, files>>

SoftDelete(taskID) ==
    LET err == SoftDeleteErr(tasks, taskID) IN
    /\ tasks' = IF err = "ok" THEN SoftDeleteRows(tasks, taskID, clock) ELSE tasks
    /\ res' = Result("SoftDelete", taskID, err)
    /\ UNCHANGED <<links, taskSeq, linkSeq, clock, currentFile, opened, files>>

RestoreTask(taskID) ==
    LET err == RestoreTaskErr(tasks, taskID) IN
    /\ tasks' = IF err = "ok" THEN RestoreTaskRows(tasks, taskID, clock) ELSE tasks
    /\ res' = Result("RestoreTask", taskID, err)
    /\ UNCHANGED <<links, taskSeq, linkSeq, clock, currentFile, opened, files>>

\* HardDelete when the driver fails the statement fault names
HardDeleteWith(taskID, fault) ==
    LET out == HardDeleteTx(tasks, links, taskID, fault) IN
    /\ tasks' = out.tasks
    /\ links' = out.links
    /\ res' = Result("HardDelete", taskID, out.err)
    /\ UNCHANGED <<taskSeq, linkSeq, clock, currentFile, opened, files>>

HardDelete(taskID) == HardDeleteWith(taskID, "none")

LinkTasks(fromTaskID, toTaskID, linkType) ==
    LET err == LinkTasksErr(tasks, links, fromTaskID, toTaskID, linkType)
        id == linkSeq + 1
    IN /\ IF err = "ok"
          THEN /\ links' = links \cup {LinkRow(id, fromTaskID, toTaskID, linkType, clock)}
               /\ linkSeq' = id
          ELSE UNCHANGED <<links, linkSeq>>
       /\ res' = Result("LinkTasks", fromTaskID, err)
       /\ UNCHANGED <<tasks, taskSeq, clock, currentFile, opened, files>>

UnlinkTasks(fromTaskID, toTaskID, linkType) ==
    LET err == UnlinkTasksErr(links, fromTaskID, toTaskID, linkType) IN
    /\ links' = links \ UnlinkMatches(links, fromTaskID, toTaskID, linkType)
    /\ res' = Result("UnlinkTasks", fromTaskID, err)
    /\ UNCHANGED <<tasks, taskSeq, linkSeq, clock, currentFile, opened, files>>

\* getCurrentBoardDB: the database of the current board is opened
getCurrentBoardDB ==
    LET path == GetBoardPath(GetCurrentBoard(currentFile))
        store == OpenStore(files, path)
    IN /\ opened = Closed
       /\ tasks' = store.tasks
       /\ links' = store.links
       /\ taskSeq' = store.taskSeq
       /\ linkSeq' = store.linkSeq
       /\ opened' = path
       /\ files' = [q \in DOMAIN files \ {path} |-> files[q]]
       /\ res' = Result("Open", 0, "ok")
       /\ UNCHANGED <<clock, currentFile>>

\* db.Close at the end of the process
Close ==
    /\ opened # Closed
    /\ files' = (opened :> Store(tasks, links, taskSeq, linkSeq)) @@ files
    /\ opened' = Closed
    /\ tasks' = << >>
    /\ links' = {}
    /\ taskSeq' = 0
    /\ linkSeq' = 0
    /\ res' = Result("Close", 0, "ok")
    /\ UNCHANGED <<clock, currentFile>>

SetCurrentBoard(boardName, fault) ==
    /\ currentFile' = SetCurrentBoardFile(currentFile, boardName, fault)
    /\ res' = Result("SetCurrentBoard", 0, SetCurrentBoardErr(boardName, fault))
    /\ UNCHANGED <<tasks, links, taskSeq, linkSeq, clock, opened, files>>

\* handleChangeBoard as it would be if it opened the database of the board
handleChangeBoard_Reopens(boardName, fault) ==
    LET found == GetBoardErr(files, opened, boardName)
        err == IF found # "ok" THEN found ELSE SetCurrentBoardErr(boardName, fault)
        path == GetBoardPath(boardName)
        store == OpenStore(files, path)
    IN /\ opened # Closed
       /\ res' = Result("change_board", 0, err)
       /\ IF found = "ok"
          THEN currentFile' = SetCurrentBoardFile(currentFile, boardName, fault)
          ELSE UNCHANGED currentFile
       /\ IF err = "ok" /\ path # opened
          THEN /\ tasks' = store.tasks /\ links' = store.links
               /\ taskSeq' = store.taskSeq /\ linkSeq' = store.linkSeq
               /\ opened' = path
               /\ files' = (opened :> Store(tasks, links, taskSeq, linkSeq))
                           @@ [q \in DOMAIN files \ {path} |-> files[q]]
          ELSE UNCHANGED <<tasks, links, taskSeq, linkSeq, opened, files>>
       /\ UNCHANGED clock

\* handleChangeBoard: GetBoard, then SetCurrentBoard
handleChangeBoard(boardName, fault) ==
    LET found == GetBoardErr(files, opened, boardName)
        err == IF found # "ok" THEN found ELSE SetCurrentBoardErr(boardName, fault)
    IN /\ opened # Closed
       /\ res' = Result("change_board", 0, err)
       /\ IF found = "ok"
          THEN currentFile' = SetCurrentBoardFile(currentFile, boardName, fault)
          ELSE UNCHANGED currentFile
       /\ UNCHANGED <<tasks, links, taskSeq, linkSeq, clock, opened, files>>

----------------------------------------------------------------------------
(* Spec: the task operations, over tasks of two titles, two statuses and  *)
(* two priorities, while seconds pass                                      *)

Events == taskSeq + (clock - 1)

Next ==
    \/ Events < MaxEvents /\ Tick
    \/ \E b \in BoardInputs, f \in FieldInputs, p \in PriorityInputs :
            /\ CreateErr(b, f[1], p) = "ok" => Events < MaxEvents
            /\ CreateWithPriority(b, f[1], f[2], p)
    \/ \E id \in IdInputs, st \in StatusInputs : UpdateStatus(id, st)
    \/ \E id \in IdInputs, f \in FieldInputs : Update(id, f[1], f[2])
    \/ \E id \in IdInputs, p \in PriorityInputs : UpdatePriority(id, p)
    \/ \E id \in IdInputs : SoftDelete(id)
    \/ \E id \in IdInputs : RestoreTask(id)
    \/ \E id \in IdInputs : HardDelete(id)

Spec == Init /\ [][Next]_vars

----------------------------------------------------------------------------
(* SpecLinks: the link operations, over tasks that are created, deleted   *)
(* and restored within one second                                          *)

Rows == taskSeq + linkSeq

NextLinks ==
    \/ \E b \in BoardInputs, f \in LinkedFieldInputs :
            /\ CreateErr(b, f[1], IntP(PriorityNone)) = "ok" => Rows < MaxRows
            /\ Create(b, f[1], f[2])
    \/ \E id \in IdInputs : SoftDelete(id)
    \/ \E id \in IdInputs : RestoreTask(id)
    \/ \E id \in IdInputs : HardDelete(id)
    \/ \E a \in IdInputs, b \in IdInputs, ty \in LinkTypeInputs :
            /\ LinkTasksErr(tasks, links, a, b, ty) = "ok" => Rows < MaxRows
            /\ LinkTasks(a, b, ty)
    \/ \E a \in IdInputs, b \in IdInputs, ty \in LinkTypeInputs : UnlinkTasks(a, b, ty)

SpecLinks == Init /\ [][NextLinks]_vars

----------------------------------------------------------------------------
(* SpecTx: tasks created with and without a priority and linked, and      *)
(* HardDelete while the driver may fail any of its statements              *)

NextTx ==
    \/ \E f \in LinkedFieldInputs :
            /\ CreateErr(1, f[1], IntP(PriorityNone)) = "ok" => Rows < MaxTxRows
            /\ Create(1, f[1], f[2])
    \/ \E b \in BoardInputs, f \in LinkedFieldInputs, p \in PriorityInputs :
            /\ CreateErr(b, f[1], p) = "ok" => Rows < MaxTxRows
            /\ CreateWithPriority(b, f[1], f[2], p)
    \/ \E id \in IdInputs : SoftDelete(id)
    \/ \E a \in IdInputs, b \in IdInputs :
            /\ LinkTasksErr(tasks, links, a, b, LinkTypeBlocks) = "ok" => Rows < MaxTxRows
            /\ LinkTasks(a, b, LinkTypeBlocks)
    \/ \E id \in IdInputs, fault \in FaultInputs : HardDeleteWith(id, fault)

SpecTx == Init /\ [][NextTx]_vars

----------------------------------------------------------------------------
(* SpecStatus: tasks moved between all statuses                            *)

NextStatus ==
    \/ taskSeq < MaxStatusTasks /\ Create(1, <<"a">>, "")
    \/ \E id \in IdInputs, st \in AllStatusInputs : UpdateStatus(id, st)
    \/ \E id \in IdInputs : SoftDelete(id)
    \/ \E id \in IdInputs : RestoreTask(id)

SpecStatus == Init /\ [][NextStatus]_vars

----------------------------------------------------------------------------
(* SpecSearch: tasks whose titles match the queries to different degrees   *)

NextSearch ==
    \/ \E b \in BoardInputs, t \in SearchTitleInputs :
            /\ CreateErr(b, t, IntP(PriorityNone)) = "ok" => taskSeq < MaxSearchTasks
            /\ Create(b, t, "")
    \/ \E id \in IdInputs, t \in SearchTitleInputs : Update(id, t, "")
    \/ \E id \in IdInputs : SoftDelete(id)
    \/ \E id \in IdInputs : RestoreTask(id)

SpecSearch == Init /\ [][NextSearch]_vars

----------------------------------------------------------------------------
(* SpecResolve: tasks an identifier is resolved against                    *)

NextResolve ==
    \/ \E t \in ResolveTitleInputs : taskSeq < MaxResolveTasks /\ Create(1, t, "")
    \/ \E id \in IdInputs : SoftDelete(id)
    \/ \E id \in IdInputs : RestoreTask(id)

SpecResolve == Init /\ [][NextResolve]_vars

----------------------------------------------------------------------------
(* SpecFrame: the three updates on tasks that are linked, deleted or not   *)

NextFrame ==
    \/ taskSeq < MaxFrameTasks /\ Create(1, <<"a">>, "")
    \/ LinkTasks(1, 2, LinkTypeBlocks)
    \/ \E id \in IdInputs, st \in StatusInputs : UpdateStatus(id, st)
    \/ \E id \in IdInputs, f \in FieldInputs : Update(id, f[1], f[2])
    \/ \E id \in IdInputs, p \in PriorityInputs : UpdatePriority(id, p)
    \/ SoftDelete(1)
    \/ HardDelete(2)

SpecFrame == Init /\ [][NextFrame]_vars

----------------------------------------------------------------------------
(* SpecRank: titles as long as the queries they are searched with          *)

NextRank ==
    \/ \E t \in RankTitleInputs : taskSeq < MaxRankTasks /\ Create(1, t, "")
    \/ \E id \in IdInputs : SoftDelete(id)
    \/ \E id \in IdInputs : RestoreTask(id)

SpecRank == Init /\ [][NextRank]_vars

----------------------------------------------------------------------------
(* SpecReopen: the database is closed and opened again, also one written  *)
(* before the tasks table had deleted_at                                   *)

\* a row of the tasks table as it was before deleted_at
LegacyRow(id, now) ==
    [id |-> id, board_id |-> 1, title |-> <<"o", "l", "d">>, description |-> "",
     status |-> StatusTodo, priority |-> PriorityNone,
     created_at |-> now, updated_at |-> now]

\* no database is open and cainban.db is of the old schema, with tasks in it
InitLegacy ==
    /\ tasks = << >>
    /\ links = {}
    /\ taskSeq = 0
    /\ linkSeq = 0
    /\ clock = 2
    /\ res = Result("New", 0, "ok")
    /\ currentFile = NoFile
    /\ opened = Closed
    /\ \E n \in 1..MaxReopenTasks :
          files = (GetBoardPath(DefaultName) :>
                      Store([id \in 1..n |-> LegacyRow(id, 1)], {}, n, 0))

NextReopen ==
    \/ getCurrentBoardDB
    \/ Close
    \/ /\ opened # Closed
       /\ \/ taskSeq < MaxReopenTasks /\ Create(1, <<"a">>, "")
          \/ \E id \in IdInputs : SoftDelete(id)
          \/ LinkTasks(1, 2, LinkTypeBlocks)

SpecReopen == (Init \/ InitLegacy) /\ [][NextReopen]_vars

----------------------------------------------------------------------------
(* SpecBoard: the current board is set and changed, processes come and go *)

NextBoard ==
    \/ \E n \in BoardNameInputs, f \in FileFaultInputs : SetCurrentBoard(n, f)
    \/ \E n \in BoardNameInputs, f \in FileFaultInputs : handleChangeBoard(n, f)
    \/ getCurrentBoardDB
    \/ Close
    \/ opened # Closed /\ taskSeq < MaxBoardTasks /\ Create(1, <<"a">>, "")

SpecBoard == Init /\ [][NextBoard]_vars

----------------------------------------------------------------------------
(* The MCP server: tools/call on the task system of the session.  Of the   *)
(* thirteen tools the dispatch knows, create_task, update_task_status,     *)
(* get_task and update_task_priority are modelled, and the ones that are   *)
(* not among the thirteen.                                                  *)

\* JSON-RPC error codes of the responses; a response without error has code 0
InvalidParams == -32602
MethodNotFound == -32601
InternalError == -32603

\* what the last tools/call answered: err names the kind of failure
ToolResult(name, id, code, err) ==
    [op |-> "tools/call", id |-> id, err |-> err, tool |-> name, code |-> code]

\* a response that leaves the store alone
errorResponse(name, code, err) ==
    /\ res' = ToolResult(name, 0, code, err)
    /\ UNCHANGED <<tasks, links, taskSeq, linkSeq, clock, currentFile, opened, files>>

handleCreateTask(args) ==
    IF args.title.kind # "string"
    THEN errorResponse("create_task", InvalidParams, "bad_argument")
    ELSE LET boardID == IF args.board_id.kind = "float64" THEN args.board_id.n ELSE 1
             hasPriority == args.priority.kind # "missing"
             priority == IF hasPriority THEN args.priority ELSE IntP(PriorityNone)
             err == CreateErr(boardID, args.title.s, priority)
             id == Autoincrement(tasks, taskSeq)
         IN IF hasPriority /\ ~IsValidPriority(args.priority)
            THEN errorResponse("create_task", InvalidParams, "invalid_priority")
            ELSE IF err # "ok"
            THEN errorResponse("create_task", InternalError, err)
            ELSE /\ tasks' = (id :> CreateRow(id, boardID, args.title.s, "", priority, clock))
                                 @@ tasks
                 /\ taskSeq' = id
                 /\ res' = ToolResult("create_task", id, 0, "ok")
                 /\ UNCHANGED <<links, linkSeq, clock, currentFile, opened, files>>

handleUpdateTaskStatus(args) ==
    IF args.id.kind # "float64" \/ args.status.kind # "string"
    THEN errorResponse("update_task_status", InvalidParams, "bad_argument")
    ELSE IF ~IsValidStatus(Status(args.status.s))
    THEN errorResponse("update_task_status", InvalidParams, "invalid_status")
    ELSE LET err == UpdateStatusErr(tasks, args.id.n, Status(args.status.s)) IN
         IF err # "ok"
         THEN errorResponse("update_task_status", InternalError, err)
         ELSE /\ tasks' = UpdateStatusRows(tasks, args.id.n, Status(args.status.s), clock)
              /\ res' = ToolResult("update_task_status", args.id.n, 0, "ok")
              /\ UNCHANGED <<links, taskSeq, linkSeq, clock, currentFile, opened, files>>

handleGetTask(args) ==
    IF args.id.kind # "float64"
    THEN errorResponse("get_task", InvalidParams, "bad_argument")
    ELSE IF GetByID(tasks, args.id.n).err # "ok"
    THEN errorResponse("get_task", InternalError, GetByID(tasks, args.id.n).err)
    ELSE /\ res' = ToolResult("get_task", args.id.n, 0, "ok")
         /\ UNCHANGED <<tasks, links, taskSeq, linkSeq, clock, currentFile, opened, files>>

handleUpdateTaskPriority(args) ==
    IF args.id.kind # "float64" \/ args.priority.kind = "missing"
    THEN errorResponse("update_task_priority", InvalidParams, "bad_argument")
    ELSE IF ~IsValidPriority(args.priority)
    THEN errorResponse("update_task_priority", InvalidParams, "invalid_priority")
    ELSE LET err == UpdatePriorityErr(tasks, args.id.n, args.priority) IN
         IF err # "ok"
         THEN errorResponse("update_task_priority", InternalError, err)
         ELSE /\ tasks' = UpdatePriorityRows(tasks, args.id.n, args.priority, clock)
              /\ res' = ToolResult("update_task_priority", args.id.n, 0, "ok")
              /\ UNCHANGED <<links, taskSeq, linkSeq, clock, currentFile, opened, files>>

\* params: whether the request's params decode, the tool name, the arguments
handleToolsCall(params) ==
    /\ opened # Closed
    /\ IF ~params.decodes
       THEN errorResponse(params.name, InvalidParams, "bad_argument")
       ELSE CASE params.name = "create_task" -> handleCreateTask(params.arguments)
              [] params.name = "update_task_status" ->
                    handleUpdateTaskStatus(params.arguments)
              [] params.name = "get_task" -> handleGetTask(params.arguments)
              [] params.name = "update_task_priority" ->
                    handleUpdateTaskPriority(params.arguments)
              [] OTHER -> errorResponse(params.name, MethodNotFound, "unknown_tool")

----------------------------------------------------------------------------
(* SpecTools: tools/call requests of one session                           *)

NextTools ==
    \E params \in ParamsInputs :
        /\ params.name = "create_task" => taskSeq < MaxToolTasks
        /\ handleToolsCall(params)

SpecTools == Init /\ [][NextTools]_vars

----------------------------------------------------------------------------
(* SpecPriority: priorities are set on tasks that are deleted and restored *)

NextPriority ==
    \/ taskSeq < MaxPriorityTasks /\ Create(1, <<"a">>, "")
    \/ Events < MaxEvents /\ Tick
    \/ \E id \in IdInputs, p \in LevelInputs : UpdatePriority(id, p)
    \/ \E id \in IdInputs : SoftDelete(id)
    \/ \E id \in IdInputs : RestoreTask(id)

SpecPriority == Init /\ [][NextPriority]_vars

----------------------------------------------------------------------------
(* Properties *)

Active(T, id) == id \in DOMAIN T /\ T[id].deleted_at = NULL
SoftDeleted(T, id) == id \in DOMAIN T /\ T[id].deleted_at # NULL
Triple(l) == <<l.from_task_id, l.to_task_id, l.link_type>>
Triples(L) == {Triple(l) : l \in L}

\* C1: in every reachable state a task whose deleted_at is set is returned
\* by none of GetTask (not found), ListTasks, ListTasksByStatus and
\* SearchTasks, while its row is still stored and RestoreTask and HardDelete
\* on its id succeed.
C1_SoftDeletedHidden ==
    \A id \in IdInputs : (id \in DOMAIN tasks /\ tasks[id].deleted_at # NULL) =>
        /\ GetByID(tasks, id).err = "not_found"
        /\ \A b \in BoardInputs :
              /\ id \notin ListRows(tasks, b)
              /\ \A st \in StatusInputs \cup {StatusTodo, StatusDone} :
                    id \notin ListByStatusRows(tasks, b, st)
              /\ \A q \in QueryInputs : id \notin SearchRows(tasks, b, q)
        /\ tasks[id].id = id
        /\ RestoreTaskErr(tasks, id) = "ok"
        /\ HardDeleteErr(tasks, id) = "ok"

\* a task was just soft-deleted while another task of its board is listed
C1_Witness ==
    /\ res.op = "SoftDelete" /\ res.err = "ok"
    /\ SoftDeleted(tasks, res.id)
    /\ ListRows(tasks, tasks[res.id].board_id) # {}
    /\ \E q \in QueryInputs : SearchRows(tasks, tasks[res.id].board_id, q) # {}

SameButUpdatedAt(t, u) == [t EXCEPT !.updated_at = 0] = [u EXCEPT !.updated_at = 0]

\* C2: when SoftDelete(t.id) succeeds on an active task t, a RestoreTask(t.id)
\* that follows it, in the same second or a later one, succeeds, and GetTask
\* then returns t with every field but updated_at as before the SoftDelete.
C2_SoftDeleteRestore ==
    [][(res'.op = "SoftDelete" /\ res'.err = "ok") =>
          LET id == res'.id IN
          /\ Active(tasks, id)
          /\ RestoreTaskErr(tasks', id) = "ok"
          /\ \A now \in clock'..(clock' + 1) :
                LET got == GetByID(RestoreTaskRows(tasks', id, now), id) IN
                /\ got.err = "ok"
                /\ SameButUpdatedAt(got.task, tasks[id])
                /\ got.task.id = id
                /\ got.task.updated_at = now]_vars

\* a task changed after its creation was soft-deleted and has been restored
\* in a later second
C2_Witness ==
    /\ res.op = "RestoreTask" /\ res.err = "ok"
    /\ Active(tasks, res.id)
    /\ tasks[res.id].updated_at > tasks[res.id].created_at
    /\ tasks[res.id].status # StatusTodo

\* C3: after HardDelete(A) succeeds no stored link has A as an endpoint, so
\* GetTaskLinks(B) returns no link that mentions A, and nothing at all when
\* all of B's links were with A, and RestoreTask(A) fails.
C3_HardDeleteCascades ==
    [][(res'.op = "HardDelete" /\ res'.err = "ok") =>
          LET A == res'.id IN
          /\ \A l \in links' : l.from_task_id # A /\ l.to_task_id # A
          /\ \A B \in IdInputs :
                /\ \A l \in GetTaskLinksRows(links', B) :
                      l.from_task_id # A /\ l.to_task_id # A
                /\ (\A l \in GetTaskLinksRows(links, B) :
                        l.from_task_id = A \/ l.to_task_id = A)
                      => GetTaskLinksRows(links', B) = {}
                /\ B # A => GetTaskLinksRows(links', B) \subseteq GetTaskLinksRows(links, B)
          /\ RestoreTaskErr(tasks', A) # "ok"
          /\ A \notin DOMAIN tasks']_vars

\* task 1 was linked with task 2 and has just been hard-deleted: task 2 is
\* stored and has no link
C3_Witness ==
    /\ res.op = "HardDelete" /\ res.err = "ok"
    /\ res.id \notin DOMAIN tasks
    /\ linkSeq >= 1
    /\ \E B \in DOMAIN tasks : GetTaskLinksRows(links, B) = {}

\* C4: in every reachable state both endpoints of every stored link are
\* stored task rows, and no stored link joins a task to itself.
C4_LinkIntegrity ==
    \A l \in links :
        /\ l.from_task_id \in DOMAIN tasks
        /\ l.to_task_id \in DOMAIN tasks
        /\ l.from_task_id # l.to_task_id

\* a link is stored whose one endpoint is soft-deleted, after a hard delete
C4_Witness ==
    /\ \E l \in links : SoftDeleted(tasks, l.from_task_id) /\ Active(tasks, l.to_task_id)
    /\ Cardinality(DOMAIN tasks) < taskSeq

\* C5: no two stored links share (from_task_id, to_task_id, link_type); a
\* LinkTasks call that repeats a stored triple fails and leaves the links
\* as they are; a LinkTasks call on the ordered pair of a stored link with
\* another type succeeds while both tasks are active.
C5_UniqueTriple ==
    /\ [](/\ \A l1 \in links, l2 \in links : Triple(l1) = Triple(l2) => l1 = l2
          /\ \A l \in links, ty \in LinkTypeInputs :
                LET err == LinkTasksErr(tasks, links, l.from_task_id, l.to_task_id, ty) IN
                IF <<l.from_task_id, l.to_task_id, ty>> \in Triples(links)
                THEN /\ err # "ok"
                     /\ (Active(tasks, l.from_task_id) /\ Active(tasks, l.to_task_id))
                            => err = "link_exists"
                ELSE (Active(tasks, l.from_task_id) /\ Active(tasks, l.to_task_id))
                            => err = "ok")
    /\ [][res'.op = "LinkTasks" =>
            IF res'.err = "ok"
            THEN /\ Cardinality(links') = Cardinality(links) + 1
                 /\ Cardinality(Triples(links')) = Cardinality(Triples(links)) + 1
                 /\ links \subseteq links'
            ELSE links' = links]_vars

\* the same ordered pair is linked twice, with two types, and a repeated
\* LinkTasks has just been refused
C5_Witness ==
    /\ res.op = "LinkTasks" /\ res.err = "link_exists"
    /\ \E l1 \in links, l2 \in links :
          /\ l1.from_task_id = l2.from_task_id
          /\ l1.to_task_id = l2.to_task_id
          /\ l1.link_type # l2.link_type

\* C6 as stated: LinkTasks(x, x, type) fails with the self-link validation
\* error for every id x, whether or not a task x exists or is active, and
\* inserts no link.
C6_SelfLinkAlwaysValidation ==
    [][res'.op = "LinkTasks" =>
          \A ty \in LinkTypeInputs :
              LinkTasks(res'.id, res'.id, ty) =>
                  (res'.err = "self_link" /\ links' = links)]_vars

\* C6 amended: LinkTasks(x, x, type) fails for every id x and inserts no
\* link; the error is the self-link validation error when x is an active
\* task, and the not-found error of the from endpoint otherwise.
C6_SelfLinkRejected ==
    /\ [](\A x \in IdInputs, ty \in LinkTypeInputs :
            LinkTasksErr(tasks, links, x, x, ty) =
                IF Active(tasks, x) THEN "self_link" ELSE "from_not_found")
    /\ [][(res'.op = "LinkTasks" /\ res'.err \in {"self_link", "from_not_found"})
             => links' = links]_vars

\* a self-link of an active task has just been refused
C6_Witness ==
    /\ res.op = "LinkTasks" /\ res.err = "self_link"
    /\ Active(tasks, res.id)

\* C7: LinkTasks fails with a not-found error and inserts no link whenever
\* either endpoint is not an active task: never created, hard-deleted or
\* soft-deleted.
C7_LinkNeedsActiveEndpoints ==
    /\ [](\A a \in IdInputs, b \in IdInputs, ty \in LinkTypeInputs :
            ~(Active(tasks, a) /\ Active(tasks, b)) =>
                LinkTasksErr(tasks, links, a, b, ty) =
                    IF ~Active(tasks, a) THEN "from_not_found" ELSE "to_not_found")
    /\ [][(res'.op = "LinkTasks" /\ res'.err \in {"from_not_found", "to_not_found"})
             => links' = links]_vars

\* a link from a soft-deleted task to an active one has just been refused
C7_Witness ==
    /\ res.op = "LinkTasks" /\ res.err = "from_not_found"
    /\ SoftDeleted(tasks, res.id)
    /\ \E b \in DOMAIN tasks : Active(tasks, b)

\* C8 as stated: every stored link has link_type in {blocks, blocked_by,
\* related, depends_on}.
C8_LinkTypeClosed == \A l \in links : l.link_type \in LinkTypes

\* C9 as stated: UpdateTaskStatus and UpdateTask called with the id of a
\* soft-deleted task fail and leave the task as it is.
C9_UpdatesNeedActive ==
    [][(/\ res'.op \in {"UpdateTaskStatus", "UpdateTask"}
        /\ SoftDeleted(tasks, res'.id)) =>
            (res'.err # "ok" /\ tasks' = tasks)]_vars

\* C10: SoftDelete(id) succeeds exactly when task id is stored and active,
\* RestoreTask(id) exactly when it is stored and soft-deleted; a call that
\* fails changes no task, and one that succeeds sets or clears deleted_at.
C10_SoftDeleteRestoreGuards ==
    [][/\ res'.op = "SoftDelete" =>
            /\ (res'.err = "ok") <=> Active(tasks, res'.id)
            /\ res'.err = "ok" => SoftDeleted(tasks', res'.id)
            /\ res'.err # "ok" => (res'.err = "already_deleted" /\ tasks' = tasks)
       /\ res'.op = "RestoreTask" =>
            /\ (res'.err = "ok") <=> SoftDeleted(tasks, res'.id)
            /\ res'.err = "ok" => Active(tasks', res'.id)
            /\ res'.err # "ok" => (res'.err = "not_deleted" /\ tasks' = tasks)]_vars

\* a second SoftDelete of a task has just been refused, a second after the
\* first one
C10_Witness ==
    /\ res.op = "SoftDelete" /\ res.err = "already_deleted"
    /\ SoftDeleted(tasks, res.id)
    /\ tasks[res.id].deleted_at < clock

\* C11: HardDelete is all or nothing. A call that succeeds removes the row
\* and every link of the task and nothing else; a call that fails, for an
\* unknown id or for an error at any of its statements, leaves every task
\* and every link as it was; no stored link has an endpoint that is not a
\* stored row.
C11_HardDeleteAtomic ==
    /\ [](\A l \in links : l.from_task_id \in DOMAIN tasks /\ l.to_task_id \in DOMAIN tasks)
    /\ [][res'.op = "HardDelete" =>
            IF res'.err = "ok"
            THEN /\ res'.id \in DOMAIN tasks
                 /\ tasks' = Without(tasks, res'.id)
                 /\ links' = links \ GetTaskLinksRows(links, res'.id)
            ELSE tasks' = tasks /\ links' = links]_vars

\* a HardDelete of a linked task has just failed at a statement after the
\* DELETE on task_links: the task and its link are stored
C11_Witness ==
    /\ res.op = "HardDelete" /\ res.err \in {"exec_failed", "commit_failed"}
    /\ res.id \in DOMAIN tasks
    /\ GetTaskLinksRows(links, res.id) # {}

\* C12: task ids are never reused. An id the sequence has handed out whose
\* row is gone (only HardDelete removes rows) has no row in any later state,
\* whatever call is made, so GetTask and RestoreTask on it fail from then on;
\* a created task gets an id above every id handed out before.
C12_IdsNeverReused ==
    /\ [](/\ DOMAIN tasks \subseteq 1..taskSeq
          /\ \A id \in 1..taskSeq : id \notin DOMAIN tasks =>
                /\ GetByID(tasks, id).err = "not_found"
                /\ RestoreTaskErr(tasks, id) # "ok")
    /\ [][/\ taskSeq' >= taskSeq
          /\ \A id \in 1..taskSeq : id \notin DOMAIN tasks => id \notin DOMAIN tasks'
          /\ (res'.op = "HardDelete" /\ res'.err = "ok") =>
                (res'.id \in 1..taskSeq' /\ res'.id \notin DOMAIN tasks')
          /\ (res'.op = "CreateTask" /\ res'.err = "ok") =>
                (res'.id > taskSeq /\ res'.id \in DOMAIN tasks')]_vars

\* a task has just been created after the task with the id before its own
\* was hard-deleted
C12_Witness ==
    /\ res.op = "CreateTask" /\ res.err = "ok"
    /\ res.id > 1
    /\ (res.id - 1) \notin DOMAIN tasks

\* C13 as stated: ListTasks(board) returns exactly the active tasks of the
\* board, each once, by priority descending, and of two listed tasks of
\* equal priority the one created earlier (the one with the smaller id)
\* comes first, however little time separates the two creations.
C13_ListOrder ==
    \A b \in BoardInputs : \A o \in List(tasks, b) :
        /\ {o[i] : i \in 1..Len(o)} = {id \in DOMAIN tasks : Active(tasks, id) /\ tasks[id].board_id = b}
        /\ \A i, j \in 1..Len(o) : i < j =>
              /\ o[i] # o[j]
              /\ tasks[o[i]].priority >= tasks[o[j]].priority
              /\ tasks[o[i]].priority = tasks[o[j]].priority => o[i] < o[j]

\* C14 as stated: ListTasksByStatus fails with a validation error when the
\* status is not one of todo, doing, done, and answers such a call with no
\* list.
C14_ListByStatusValidates ==
    \A b \in BoardInputs, st \in StatusInputs :
        ~IsValidStatus(st) =>
            /\ ListByStatusErr(st) = "invalid_status"
            /\ ListByStatus(tasks, b, st) = {}

\* C15: in every reachable state every stored task has a status among todo,
\* doing, done and a priority in 0..4; CreateTask and UpdateTaskPriority
\* reject a priority no level answers to, UpdateTaskStatus rejects a status
\* outside the three, for an id that has a row and for one that has none,
\* and a call rejected so changes no task.
C15_StatusPriorityRanges ==
    /\ [](/\ \A id \in DOMAIN tasks :
                /\ tasks[id].status \in {StatusTodo, StatusDoing, StatusDone}
                /\ tasks[id].priority \in PriorityNone..PriorityCritical
          /\ \A p \in BadPriorityInputs :
                /\ \A b \in BoardInputs, f \in FieldInputs : CreateErr(b, f[1], p) # "ok"
                /\ \A id \in IdInputs : UpdatePriorityErr(tasks, id, p) = "invalid_priority"
          /\ \A st \in StatusInputs \ {StatusTodo, StatusDoing, StatusDone} :
                \A id \in IdInputs : UpdateStatusErr(tasks, id, st) = "invalid_status")
    /\ [][(/\ res'.op \in {"CreateTask", "UpdateTaskPriority", "UpdateTaskStatus"}
           /\ res'.err \in {"invalid_priority", "invalid_status"})
             => tasks' = tasks]_vars

\* UpdateTaskPriority has just been rejected for a stored task whose status
\* and priority were changed before
C15_Witness ==
    /\ res.op = "UpdateTaskPriority" /\ res.err = "invalid_priority"
    /\ res.id \in DOMAIN tasks
    /\ tasks[res.id].status = StatusDoing
    /\ \E id \in DOMAIN tasks : tasks[id].updated_at > tasks[id].created_at

\* C16: a CreateTask that succeeds adds exactly one task: active, with
\* status todo, the board, title, description and priority given
\* (PriorityNone when Create is called, which takes none) and an id no task
\* was given before; GetTask(id) right afterwards returns these values; a
\* CreateTask whose title or priority is not valid adds no task.
C16_CreateAddsOneTask ==
    [][res'.op = "CreateTask" =>
        /\ \A b \in BoardInputs, f \in LinkedFieldInputs :
              \A pl \in { <<StrP(<<"H","i","g","h">>), PriorityHigh>>,
                           <<IntP(PriorityNone), PriorityNone>>,
                           <<IntP(5), PriorityNone>> } :
                  CreateWithPriority(b, f[1], f[2], pl[1]) =>
                      IF TrimSpace(f[1]) # << >> /\ pl[1] # IntP(5) /\ b \in Boards
                      THEN LET id == res'.id IN
                           /\ res'.err = "ok"
                           /\ id \notin 1..taskSeq
                           /\ DOMAIN tasks' = DOMAIN tasks \cup {id}
                           /\ \A i \in DOMAIN tasks : tasks'[i] = tasks[i]
                           /\ tasks'[id] =
                                 [id |-> id, board_id |-> b, title |-> f[1],
                                  description |-> f[2], status |-> StatusTodo,
                                  priority |-> pl[2], deleted_at |-> NULL,
                                  created_at |-> clock, updated_at |-> clock]
                           /\ GetByID(tasks', id) = [err |-> "ok", task |-> tasks'[id]]
                      ELSE /\ res'.err # "ok"
                           /\ (TrimSpace(f[1]) = << >> \/ pl[1] = IntP(5))
                                 => res'.err \in {"title_empty", "invalid_priority"}
                           /\ tasks' = tasks
                           /\ taskSeq' = taskSeq
        /\ \A b \in BoardInputs, f \in LinkedFieldInputs :
              (Create(b, f[1], f[2]) /\ res'.err = "ok") =>
                  tasks'[res'.id].priority = PriorityNone]_vars

\* a second task has just been created, with a priority, next to one
\* created without
C16_Witness ==
    /\ res.op = "CreateTask" /\ res.err = "ok"
    /\ Active(tasks, res.id)
    /\ tasks[res.id].priority = PriorityHigh
    /\ \E id \in DOMAIN tasks : id < res.id /\ tasks[id].priority = PriorityNone

\* C17: UpdateTaskStatus imposes no transition order. For an active task in
\* any status and any of todo, doing, done, the status it has included, the
\* call succeeds and leaves the task with that status, and the other tasks
\* and the task's other fields but updated_at as they were.
C17_NoTransitionOrder ==
    \A id \in IdInputs : Active(tasks, id) =>
        \A st \in {StatusTodo, StatusDoing, StatusDone} :
            LET after == UpdateStatusRows(tasks, id, st, clock) IN
            /\ UpdateStatusErr(tasks, id, st) = "ok"
            /\ after[id].status = st
            /\ after = [tasks EXCEPT ![id] = [tasks[id] EXCEPT !.status = st, !.updated_at = clock]]

\* one task is done and UpdateTaskStatus has just put another, changed
\* before, back to todo
C17_Witness ==
    /\ res.op = "UpdateTaskStatus" /\ res.err = "ok"
    /\ Active(tasks, res.id)
    /\ tasks[res.id].status = StatusTodo
    /\ \E id \in DOMAIN tasks : id # res.id /\ Active(tasks, id) /\ tasks[id].status = StatusDone

\* C18 as stated: ValidateTitle(s) fails if and only if s without its
\* surrounding whitespace is empty or longer than 255 characters, and
\* CreateTask and UpdateTask reject exactly those titles.
C18_TitleValidation ==
    \A s \in TitleInputs :
        LET bad == TrimSpace(s) = << >> \/ Len(TrimSpace(s)) > MaxTitleLen IN
        /\ (ValidateTitle(s) # "ok") <=> bad
        /\ (CreateErr(1, s, IntP(PriorityNone)) # "ok") <=> bad
        /\ \A id \in DOMAIN tasks : (UpdateErr(tasks, id, s) # "ok") <=> bad

\* C19: GetTask answers alike for an id never handed out, an id whose task
\* was hard-deleted and an id whose task is soft-deleted: in every reachable
\* state each such id gets the one not-found result, and soft-deleting an
\* active task gives GetTask the result that hard-deleting it gives.
C19_NotFoundAlike ==
    \A id \in IdInputs :
        IF Active(tasks, id)
        THEN /\ GetByID(tasks, id).err = "ok"
             /\ GetByID(SoftDeleteRows(tasks, id, clock), id)
                    = GetByID(HardDeleteRows(tasks, id), id)
             /\ GetByID(SoftDeleteRows(tasks, id, clock), id)
                    = GetByID(tasks, taskSeq + 1)
        ELSE GetByID(tasks, id) = [err |-> "not_found", task |-> NoTask]

\* one task is soft-deleted and another has been hard-deleted
C19_Witness ==
    \E a \in 1..taskSeq, b \in 1..taskSeq :
        /\ SoftDeleted(tasks, a)
        /\ b \notin DOMAIN tasks
        /\ GetByID(tasks, a) = GetByID(tasks, b)

\* C20: SearchTasks(board, q) for a non-empty q returns no error and
\* exactly the active tasks of the board whose score against q is above 0,
\* each once, and no task of the result comes after a task of strictly
\* lower score.
C20_SearchResult ==
    \A b \in BoardInputs, q \in SearchQueryInputs \ {<< >>} :
        LET score(id) == fuzzyMatchScore(ToLower(tasks[id].title), ToLower(TrimSpace(q))) IN
        /\ SearchErr(q) = "ok"
        /\ SearchTasks(tasks, b, q) # {}
        /\ \A r \in SearchTasks(tasks, b, q) :
              /\ {r[i] : i \in 1..Len(r)} =
                    {id \in DOMAIN tasks : /\ Active(tasks, id)
                                           /\ tasks[id].board_id = b
                                           /\ score(id) > 0}
              /\ \A i, j \in 1..Len(r) : i < j => (r[i] # r[j] /\ score(r[i]) >= score(r[j]))

\* a search returns two tasks of different scores, the one created later
\* first
C20_Witness ==
    \E q \in SearchQueryInputs \ {<< >>} : \E r \in SearchTasks(tasks, 1, q) :
        /\ Len(r) = 2
        /\ r[1] > r[2]
        /\ fuzzyMatchScore(ToLower(tasks[r[1]].title), ToLower(TrimSpace(q)))
              > fuzzyMatchScore(ToLower(tasks[r[2]].title), ToLower(TrimSpace(q)))

\* C21 as stated: SearchTasks is stable. Any two tasks of the result with
\* equal score come in the order in which the list it was made from (what
\* List returned for the board) has them.
C21_SearchStable ==
    \A b \in BoardInputs, q \in SearchQueryInputs \ {<< >>} : \A listed \in List(tasks, b) :
        LET r == SearchListed(tasks, listed, q)
            score(id) == fuzzyMatchScore(ToLower(tasks[id].title), ToLower(TrimSpace(q)))
            at(id) == CHOOSE i \in 1..Len(listed) : listed[i] = id
        IN \A i, j \in 1..Len(r) :
              (i < j /\ score(r[i]) = score(r[j])) => at(r[i]) < at(r[j])

\* C22: the score SearchTasks gives a stored title against a query, both
\* lower-cased and the query trimmed, is 1000 when the two are equal;
\* otherwise 500 + 10*len(query) when the query occurs in the title;
\* otherwise, over the words of both, 5*len(word) for every title word a
\* query word is a prefix of and 2*len(word) for every title word it occurs
\* in without being a prefix, plus 50 when the query has more than one word
\* and that sum is positive. len counts bytes.
C22_ScoreFormula ==
    \A id \in DOMAIN tasks, query \in ResolveInputs :
        LET t == ToLower(tasks[id].title)
            q == ToLower(TrimSpace(query))
            tw == Fields(t)
            qw == Fields(q)
            prefixOf(w) == Cardinality({j \in 1..Len(tw) : HasPrefix(tw[j], w)})
            insideOf(w) == Cardinality({j \in 1..Len(tw) :
                                          ~HasPrefix(tw[j], w) /\ Contains(tw[j], w)})
            words == SumSeq([i \in 1..Len(qw) |->
                               5 * ByteLen(qw[i]) * prefixOf(qw[i])
                               + 2 * ByteLen(qw[i]) * insideOf(qw[i])])
        IN fuzzyMatchScore(t, q) =
              IF t = q THEN 1000
              ELSE IF \E i \in 0..(Len(t) - Len(q)) : SubSeq(t, i + 1, i + Len(q)) = q
                   THEN 500 + 10 * ByteLen(q)
              ELSE IF Len(qw) > 1 /\ words > 0 THEN words + 50
              ELSE words

\* the stored titles score as an equal title, as a substring, by words with
\* the bonus (a prefix and an inner occurrence: 5*4 + 2*4 + 50) and not at all
C22_Witness ==
    /\ \E id \in DOMAIN tasks :
          fuzzyMatchScore(ToLower(tasks[id].title), <<"a">>) = 1000
    /\ \E id \in DOMAIN tasks :
          /\ fuzzyMatchScore(ToLower(tasks[id].title), <<"a","u","t","h">>) = 540
          /\ fuzzyMatchScore(ToLower(tasks[id].title),
                             <<"u","s","e","r"," ","m","e","n","t">>) = 78
          /\ fuzzyMatchScore(ToLower(tasks[id].title), <<"x">>) = 0

\* C23 as stated: a stored title "Implement user authentication" scores
\* 5*9 + 5*4 + 50 = 115 against the query "implement user" and
\* 500 + 10*4 = 540 against the query "auth".
C23_ExampleScores ==
    \A id \in DOMAIN tasks :
        tasks[id].title = ExampleTitle =>
            /\ fuzzyMatchScore(ToLower(tasks[id].title),
                               <<"i","m","p","l","e","m","e","n","t"," ","u","s","e","r">>) = 115
            /\ fuzzyMatchScore(ToLower(tasks[id].title), <<"a","u","t","h">>) = 540

\* C23: a stored title "Implement user authentication" scores
\* 500 + 10*14 = 640 against the query "implement user", which occurs in the
\* lower-cased title; 5*4 + 5*9 + 50 = 115 against "user implement", which
\* does not; and 500 + 10*4 = 540 against "auth".
C23_ExampleScoresSubstring ==
    \A id \in DOMAIN tasks :
        tasks[id].title = ExampleTitle =>
            /\ fuzzyMatchScore(ToLower(tasks[id].title),
                               <<"i","m","p","l","e","m","e","n","t"," ","u","s","e","r">>) = 640
            /\ fuzzyMatchScore(ToLower(tasks[id].title),
                               <<"u","s","e","r"," ","i","m","p","l","e","m","e","n","t">>) = 115
            /\ fuzzyMatchScore(ToLower(tasks[id].title), <<"a","u","t","h">>) = 540

\* the example title is stored and both of the claim's queries find it
C23_Witness ==
    \E id \in DOMAIN tasks :
        /\ tasks[id].title = ExampleTitle
        /\ <<id>> \in SearchTasks(tasks, 1,
                         <<"i","m","p","l","e","m","e","n","t"," ","u","s","e","r">>)
        /\ <<id>> \in SearchTasks(tasks, 1, <<"a","u","t","h">>)

\* C24 as stated: a task whose stored title, trimmed and lower-cased,
\* equals the trimmed and lower-cased query is scored 1000 by SearchTasks,
\* whatever blanks the title was stored with.
C24_TrimmedTitleExact ==
    \A id \in DOMAIN tasks, query \in QueryInputs :
        (/\ Active(tasks, id)
         /\ SearchErr(query) = "ok"
         /\ TrimSpace(query) # << >>
         /\ ToLower(TrimSpace(tasks[id].title)) = ToLower(TrimSpace(query)))
        => \A listed \in List(tasks, tasks[id].board_id) :
              LET scored == [i \in 1..Len(listed) |->
                                fuzzyMatchScore(ToLower(tasks[listed[i]].title),
                                                ToLower(TrimSpace(query)))]
              IN \A i \in 1..Len(listed) : listed[i] = id => scored[i] = 1000

\* C25 as stated: SearchTasks fails, and returns no task, for every query
\* that is empty once the blanks around it are removed.
C25_BlankQueryRejected ==
    \A b \in BoardInputs, query \in QueryInputs :
        TrimSpace(query) = << >> =>
            /\ SearchErr(query) # "ok"
            /\ SearchRows(tasks, b, query) = {}

\* C26: when the task with id n is active, FindTaskByFuzzyID(board, "n")
\* returns task n, whatever the title search finds or would find: another
\* task whose title holds the digits of n changes nothing.
C26_NumericIdFirst ==
    LET numerals == { << <<"1">>, 1 >>, << <<"2">>, 2 >>, << <<"3">>, 3 >> }
        answer(n) == [err |-> "ok", task |-> n, suggestions |-> << >>]
        found == {<< >>} \cup {<<i>> : i \in DOMAIN tasks}
                 \cup {<<i, j>> : i, j \in DOMAIN tasks}
    IN \A p \in numerals :
          Active(tasks, p[2]) =>
              /\ \A b \in BoardInputs : FindTaskByFuzzyID(tasks, b, p[1]) = {answer(p[2])}
              /\ \A e \in {"ok", "empty_query"}, m \in found :
                    FindTaskAmong(tasks, p[1], e, m) = answer(p[2])

\* task 2 is active and is not the task the title search for "2" finds
C26_Witness ==
    /\ Active(tasks, 2)
    /\ SearchTasks(tasks, 1, <<"2">>) = {<<1>>}

\* C27: when the identifier is not the numeral of an active task,
\* FindTaskByFuzzyID goes by what SearchTasks returns: its error when it
\* fails, a not-found error when it matches nothing, the task when it matches
\* one, and for more matches an error with no task and the first
\* min(matches, 5) of them as suggestions "#id title", in the order of the
\* result, scores descending. The last is also so for every number of
\* matches up to MaxMatches.
C27_ResolveBySearch ==
    LET numerals == { << <<"1">>, 1 >>, << <<"2">>, 2 >>, << <<"3">>, 3 >>,
                      << <<"0", "2">>, 2 >>, << <<"+", "1">>, 1 >> }
        few(n) == IF n < 5 THEN n ELSE 5
        Decided(T, q, m, r) ==
            /\ Len(m) = 0 => /\ r.err \in {"no_match", "no_id_no_match"}
                             /\ r.task = NULL /\ r.suggestions = << >>
            /\ Len(m) = 1 => r = [err |-> "ok", task |-> m[1], suggestions |-> << >>]
            /\ Len(m) > 1 =>
                  /\ r.err = "multiple_match" /\ r.task = NULL
                  /\ Len(r.suggestions) = few(Len(m))
                  /\ \A i \in 1..few(Len(m)) :
                        r.suggestions[i] = [id |-> m[i], title |-> T[m[i]].title]
        score(q, id) == fuzzyMatchScore(ToLower(tasks[id].title), ToLower(TrimSpace(q)))
    IN /\ \A b \in BoardInputs, q \in ResolveInputs :
             (~\E p \in numerals : p[1] = q /\ Active(tasks, p[2])) =>
                 IF q = << >>
                 THEN \A r \in FindTaskByFuzzyID(tasks, b, q) :
                          r.err = "empty_query" /\ r.task = NULL /\ r.suggestions = << >>
                 ELSE /\ \A m \in SearchTasks(tasks, b, q) :
                            \E r \in FindTaskByFuzzyID(tasks, b, q) : Decided(tasks, q, m, r)
                      /\ \A r \in FindTaskByFuzzyID(tasks, b, q) :
                            /\ \E m \in SearchTasks(tasks, b, q) : Decided(tasks, q, m, r)
                            /\ \A i, j \in 1..Len(r.suggestions) :
                                  i < j => score(q, r.suggestions[i].id)
                                              >= score(q, r.suggestions[j].id)
       /\ \A k \in 0..MaxMatches :
             LET T == [i \in 1..k |-> CreateRow(i, 1, <<"a">>, "", IntP(PriorityNone), i)]
                 m == [i \in 1..k |-> i]
             IN Decided(T, <<"a", " ">>, m, FindTaskAmong(T, <<"a", " ">>, "ok", m))

\* a word matches two tasks, which gives the error and two suggestions;
\* another matches one, which is returned; a third matches none, and neither
\* does the numeral of no task
C27_Witness ==
    /\ \E r \in FindTaskByFuzzyID(tasks, 1, <<"a">>) :
          r.err = "multiple_match" /\ Len(r.suggestions) = 2
    /\ \E id \in DOMAIN tasks : FindTaskByFuzzyID(tasks, 1, <<"a","u","t","h">>) = {Found(id)}
    /\ FindTaskByFuzzyID(tasks, 1, <<"x">>) = {NotResolved("no_match", << >>)}
    /\ FindTaskByFuzzyID(tasks, 1, <<"3">>) = {NotResolved("no_id_no_match", << >>)}

\* C28: a call of UpdateTaskStatus, UpdateTask, UpdateTaskPriority,
\* SoftDelete, RestoreTask, HardDelete or UnlinkTasks that succeeds and is
\* then made again with the same arguments, in the same second or the next,
\* leaves the tasks and the links, updated_at aside, as the first call left
\* them, whether the second call succeeds or fails; and a step that makes
\* SoftDelete or HardDelete again for the task of the successful step before
\* it changes neither tasks nor links.
C28_RetrySafe ==
    /\ [](LET Same(T1, T2) ==
                  /\ DOMAIN T1 = DOMAIN T2
                  /\ \A i \in DOMAIN T1 : SameButUpdatedAt(T1[i], T2[i])
          IN
          \A id \in IdInputs, now \in {clock, clock + 1} :
            /\ \A st \in AllStatusInputs :
                  UpdateStatusErr(tasks, id, st) = "ok" =>
                     LET T1 == UpdateStatusRows(tasks, id, st, clock)
                     IN Same(T1, IF UpdateStatusErr(T1, id, st) = "ok"
                                 THEN UpdateStatusRows(T1, id, st, now) ELSE T1)
            /\ \A f \in FieldInputs :
                  UpdateErr(tasks, id, f[1]) = "ok" =>
                     LET T1 == UpdateRows(tasks, id, f[1], f[2], clock)
                     IN Same(T1, IF UpdateErr(T1, id, f[1]) = "ok"
                                 THEN UpdateRows(T1, id, f[1], f[2], now) ELSE T1)
            /\ \A p \in PriorityInputs :
                  UpdatePriorityErr(tasks, id, p) = "ok" =>
                     LET T1 == UpdatePriorityRows(tasks, id, p, clock)
                     IN Same(T1, IF UpdatePriorityErr(T1, id, p) = "ok"
                                 THEN UpdatePriorityRows(T1, id, p, now) ELSE T1)
            /\ SoftDeleteErr(tasks, id) = "ok" =>
                  LET T1 == SoftDeleteRows(tasks, id, clock)
                  IN Same(T1, IF SoftDeleteErr(T1, id) = "ok"
                              THEN SoftDeleteRows(T1, id, now) ELSE T1)
            /\ RestoreTaskErr(tasks, id) = "ok" =>
                  LET T1 == RestoreTaskRows(tasks, id, clock)
                  IN Same(T1, IF RestoreTaskErr(T1, id) = "ok"
                              THEN RestoreTaskRows(T1, id, now) ELSE T1)
            /\ HardDeleteTx(tasks, links, id, "none").err = "ok" =>
                  LET s1 == HardDeleteTx(tasks, links, id, "none")
                  IN \A fault \in FaultInputs :
                        LET s2 == HardDeleteTx(s1.tasks, s1.links, id, fault)
                        IN Same(s1.tasks, s2.tasks) /\ s1.links = s2.links
            /\ \A to \in IdInputs, ty \in LinkTypeInputs :
                  UnlinkTasksErr(links, id, to, ty) = "ok" =>
                     LET L1 == links \ UnlinkMatches(links, id, to, ty)
                     IN L1 \ UnlinkMatches(L1, id, to, ty) = L1)
    /\ [][(/\ res.op \in {"SoftDelete", "HardDelete"}
           /\ res.err = "ok"
           /\ res'.op = res.op
           /\ res'.id = res.id)
          => (tasks' = tasks /\ links' = links /\ res'.err # "ok")]_vars

\* HardDelete has just been made again for a task it removed with its
\* links, while another task is soft-deleted and so takes no second
\* SoftDelete
C28_Witness ==
    /\ res.op = "HardDelete" /\ res.err = "not_found"
    /\ res.id \in 1..taskSeq
    /\ linkSeq > 0 /\ links = {}
    /\ \E id \in DOMAIN tasks : SoftDeleted(tasks, id)

\* C29: a SoftDelete or RestoreTask step leaves the stored links as they
\* were, GetTaskLinks returns for every task what it returned before the
\* step, and every stored link is then among the links GetTaskLinks returns
\* for its from task and among those it returns for its to task.
C29_DeleteKeepsLinks ==
    [][res'.op \in {"SoftDelete", "RestoreTask"} =>
          /\ links' = links
          /\ \A id \in IdInputs :
                GetTaskLinksRows(links', id) = GetTaskLinksRows(links, id)
          /\ \A l \in links : /\ l \in GetTaskLinksRows(links', l.from_task_id)
                              /\ l \in GetTaskLinksRows(links', l.to_task_id)]_vars

\* a task has just been restored, and a link made before its SoftDelete is
\* still returned for it and for the task at the other end
C29_Witness ==
    /\ res.op = "RestoreTask" /\ res.err = "ok"
    /\ \E l \in GetTaskLinksRows(links, res.id) :
          /\ l.from_task_id # l.to_task_id
          /\ l \in GetTaskLinksRows(links, l.from_task_id)
          /\ l \in GetTaskLinksRows(links, l.to_task_id)

C31_UnlinkExact ==
    [][res'.op = "UnlinkTasks" =>
          /\ tasks' = tasks
          /\ IF res'.err # "ok" THEN links' = links
             ELSE /\ \E l \in links : l.from_task_id = res'.id /\ links' = links \ {l}
                  /\ \A to \in IdInputs, ty \in LinkTypeInputs :
                        /\ links' = links \ UnlinkMatches(links, res'.id, to, ty) =>
                              \E l \in links : /\ Triple(l) = <<res'.id, to, ty>>
                                               /\ links' = links \ {l}
                        /\ (UnlinkTasksErr(links, res'.id, to, ty) # "ok")
                              <=> (<<res'.id, to, ty>> \notin Triples(links))]_vars

\* a link has just been removed while another link of the same two tasks,
\* of another type or in the other direction, is still stored
C31_Witness ==
    /\ res.op = "UnlinkTasks" /\ res.err = "ok"
    /\ linkSeq = 2
    /\ \E k \in links : res.id \in {k.from_task_id, k.to_task_id}

\* C32 as stated: in a result of SearchTasks a task whose lower-cased title
\* equals the lower-cased, trimmed query scores strictly more than every
\* task of the result whose title does not, however long the query.
C32_ExactRanksHighest ==
    \A q \in RankQueryInputs : \A r \in SearchTasks(tasks, 1, q) :
        LET score(id) == fuzzyMatchScore(ToLower(tasks[id].title), ToLower(TrimSpace(q)))
            exact(id) == ToLower(tasks[id].title) = ToLower(TrimSpace(q))
        IN \A i, j \in 1..Len(r) :
              (exact(r[i]) /\ ~exact(r[j])) => score(r[i]) > score(r[j])

\* C33: a step that opens a database file that exists returns no error and
\* finds what the file held: the same links and sequences, the same tasks
\* with every column as it was, no task lost or added, and the boards table
\* with board 1 alone; rows of a file written before deleted_at take the
\* column with NULL, so that every task of it is active, and rows that have
\* the column keep what it held.
C33_ReopenPreserves ==
    [][(res'.op = "Open" /\ opened' \in DOMAIN files) =>
          LET was == files[opened'] IN
          /\ res'.err = "ok"
          /\ links' = was.links
          /\ taskSeq' = was.taskSeq /\ linkSeq' = was.linkSeq
          /\ InsertDefaultBoard(Boards) = {1}
          /\ DOMAIN tasks' = DOMAIN was.tasks
          /\ \A id \in DOMAIN was.tasks :
                /\ \A c \in DOMAIN was.tasks[id] : tasks'[id][c] = was.tasks[id][c]
                /\ "deleted_at" \in DOMAIN tasks'[id]
                /\ "deleted_at" \notin DOMAIN was.tasks[id] => Active(tasks', id)]_vars

\* a file of the old schema has been opened, written to, closed and is now
\* open again: it holds an old task, a soft-deleted task and a link
C33_Witness ==
    /\ res.op = "Open"
    /\ \E id \in DOMAIN tasks : tasks[id].title = <<"o", "l", "d">> /\ Active(tasks, id)
    /\ \E id \in DOMAIN tasks : SoftDeleted(tasks, id)
    /\ links # {}

\* C34 as stated: after a SetCurrentBoard(name) that returns no error
\* GetCurrentBoard returns name when name is neither "" nor "default", blanks
\* around it included, and "default" when it is one of the two; and it
\* returns "default" as long as nothing was set.
C34_CurrentBoardRoundTrip ==
    /\ [](res.op = "New" => GetCurrentBoard(currentFile) = DefaultName)
    /\ [][(res'.op = "SetCurrentBoard" /\ res'.err = "ok") =>
             \A n \in BoardNameInputs, f \in FileFaultInputs :
                 SetCurrentBoard(n, f) =>
                     GetCurrentBoard(currentFile') =
                         IF n = << >> \/ n = DefaultName THEN DefaultName ELSE n]_vars

\* C35: sanitizeBoardName gives "unnamed" for the empty name, and for any
\* other name a name of as many characters, in which an ASCII letter, a
\* digit, "-" and "_" stand as they are and "_" stands for every other
\* character; what it gives it gives back unchanged; and the file of every
\* board but the default is named by it.
C35_Sanitize ==
    LET letters == {LowerChars[i] : i \in 1..Len(LowerChars)}
                   \cup {UpperChars[i] : i \in 1..Len(UpperChars)}
        digits == {"0", "1", "2", "3", "4", "5", "6", "7", "8", "9"}
        kept(c) == c \in letters \/ c \in digits \/ c = "-" \/ c = "_"
    IN \A n \in SanitizeInputs \cup {GetCurrentBoard(currentFile)} :
          LET safe == sanitizeBoardName(n) IN
          /\ n = << >> => safe = <<"u", "n", "n", "a", "m", "e", "d">>
          /\ n # << >> =>
                /\ Len(safe) = Len(n)
                /\ \A i \in 1..Len(n) : safe[i] = IF kept(n[i]) THEN n[i] ELSE "_"
          /\ sanitizeBoardName(safe) = safe
          /\ (n # << >> /\ n # DefaultName) =>
                GetBoardPath(n) = [dir |-> "boards", base |-> safe]

\* the database open is that of a board whose name has a character the
\* file name does not keep
C35_Witness ==
    /\ opened # Closed
    /\ opened.dir = "boards"
    /\ opened.base = sanitizeBoardName(GetCurrentBoard(currentFile))
    /\ opened.base # GetCurrentBoard(currentFile)

\* C36: for a tools/call request the error code is fixed by the kind of
\* failure: missing or wrongly typed arguments give -32602, an unknown tool
\* name gives -32601, and every failure of the operation itself (an
\* unrecognized status or priority, an empty title, a conflict, a task that
\* is not found, storage) gives -32603.
C36_ErrorClasses ==
    res.op = "tools/call" =>
        res.code = CASE res.err = "ok" -> 0
                     [] res.err = "bad_argument" -> InvalidParams
                     [] res.err = "unknown_tool" -> MethodNotFound
                     [] OTHER -> InternalError

\* C37: a task that FindTaskByFuzzyID(board, identifier) returns belongs to
\* that board, whether the identifier is its id or is matched by its title.
C37_ResolvedOnBoard ==
    \A b \in BoardInputs, idOrQuery \in ResolveInputs :
        \A found \in FindTaskByFuzzyID(tasks, b, idOrQuery) :
            found.err = "ok" => tasks[found.task].board_id = b

\* C38: UpdatePriority acts on a row whatever its deleted_at: on a
\* soft-deleted task a call with a valid priority succeeds and stores the
\* level, the task stays soft-deleted and out of GetByID and List, and
\* RestoreTask leaves the priority as it is, so that GetByID returns the new
\* level once the task is restored.
C38_PriorityWhileDeleted ==
    [][/\ (res'.op = "UpdateTaskPriority" /\ SoftDeleted(tasks, res'.id)) =>
             \E p \in LevelInputs :
                /\ res'.err = UpdatePriorityErr(tasks, res'.id, p)
                /\ res'.err = ParsePriority(p)[2]
                /\ SoftDeleted(tasks', res'.id)
                /\ GetByID(tasks', res'.id).err = "not_found"
                /\ \A b \in BoardInputs : res'.id \notin ListRows(tasks', b)
                /\ res'.err = "ok" =>
                      /\ tasks'[res'.id].priority = ParsePriority(p)[1]
                      /\ RestoreTaskErr(tasks', res'.id) = "ok"
                      /\ GetByID(RestoreTaskRows(tasks', res'.id, clock'), res'.id).task.priority
                            = ParsePriority(p)[1]
       /\ (res'.op = "RestoreTask" /\ res'.err = "ok") =>
             /\ GetByID(tasks', res'.id).err = "ok"
             /\ GetByID(tasks', res'.id).task.priority = tasks[res'.id].priority
      ]_vars

\* the priority of a soft-deleted task has just been changed
C38_Witness ==
    /\ res.op = "UpdateTaskPriority"
    /\ res.err = "ok"
    /\ SoftDeleted(tasks, res.id)
    /\ tasks[res.id].priority = PriorityHigh
    /\ tasks[res.id].updated_at > tasks[res.id].deleted_at

\* C39: the board_id of every stored task is the id of a board record, and
\* board 1 is the only record: a create_task call answers without error only
\* when it has inserted one task on a board that has a record, any other
\* answer leaves the tasks as they were, and a call with a valid title and
\* board id 2 fails with the foreign key's error and inserts nothing.
C39_BoardRecord ==
    /\ [](/\ Boards = {1}
          /\ \A id \in DOMAIN tasks : tasks[id].board_id \in Boards)
    /\ [][res'.op = "tools/call" /\ res'.tool = "create_task" =>
             /\ IF res'.err = "ok"
                THEN /\ DOMAIN tasks' = DOMAIN tasks \cup {res'.id}
                     /\ res'.id \notin DOMAIN tasks
                     /\ tasks'[res'.id].board_id \in Boards
                ELSE tasks' = tasks /\ taskSeq' = taskSeq
             /\ \A p \in {Missing, StrP(<<"H","i","g","h">>)} :
                   handleCreateTask([id |-> Missing, status |-> Missing, priority |-> p,
                                     title |-> StrP(<<"a">>),
                                     board_id |-> FloatP(2, FALSE)]) =>
                       /\ res'.err = "fk_failed"
                       /\ res'.code = InternalError
                       /\ tasks' = tasks]_vars

\* a create_task call for board 2 has failed while tasks are stored
C39_Witness ==
    /\ res.op = "tools/call"
    /\ res.tool = "create_task"
    /\ res.err = "fk_failed"
    /\ tasks # << >>

====
